---- MODULE Spec2Model ----
(***************************************************************************)
(* Playoff picture of juusoi/light-score (backend/src/main.py): the        *)
(* regular-season seeding engine, the postseason bracket tracker and the   *)
(* week navigation; find_first of functions/src/standings_parser.py.       *)
(***************************************************************************)
EXTENDS Integers, Sequences, FiniteSets, Bags, TLC

VARIABLES
    phase,            \* the phase of the season the feed reports
    layout,           \* which layout of divisions the feed has
    standings,        \* the standings list the feed serves
    calls,            \* regular-season requests answered for this feed
    reordered,        \* the feed has changed the order of its entries
    waiting,          \* the regular-season requests waiting in httpx.get
    picture,          \* the latest regular-season response
    previous,         \* the response before it
    served,           \* the standings the latest response was computed from
    served_before,    \* the standings the response before it was computed from
    afc_seeds,        \* "afc_seeds" of the fixture playoff_seeds
    nfc_seeds,        \* "nfc_seeds" of the fixture
    games,            \* "games" of the fixture
    bracket_picture,  \* the latest postseason response
    nav,              \* year, week and seasonType of the page shown
    nav_from,         \* the page the last navigation request came from
    nav_dir,          \* the direction of the last navigation request
    nav_code,         \* the HTTP status of the last navigation response
    nav_back,         \* the page the request before the last came from
    nav_dir_back,     \* the direction of the request before the last
    nav_origin,       \* the page where the present run of "next" began
    nav_nexts,        \* how many "next" requests the run has had
    MOCK_ESPN,        \* the process runs on fixtures
    clock,            \* time.monotonic(), in seconds
    ticks,            \* how many times the clock has advanced
    _games_cache,     \* url -> (ts, data)
    _live_cache_ts,   \* time of the cached live standings
    _live_cache_data, \* the cached live standings
    fetched,          \* url -> the latest fetch that gave games
    in_flight,        \* the calls of a cached fetcher waiting in httpx.get
    reply,            \* the last call of a cached fetcher and its outcome
    context_reply,    \* the last GET /games/weekly/context and its outcome
    upstream_groups,  \* the division groups of the upstream standings
    heap,             \* the lists and dicts the requests have made
    threads,          \* the requests being served, one thread each
    stats,            \* the list handed to find_first
    found             \* the outcome of the last find_first

vars == <<phase, layout, standings, calls, reordered, waiting, picture,
          previous, served, served_before,
          afc_seeds, nfc_seeds, games, bracket_picture,
          nav, nav_from, nav_dir, nav_code,
          nav_back, nav_dir_back, nav_origin, nav_nexts,
          MOCK_ESPN, clock, ticks, _games_cache, _live_cache_ts,
          _live_cache_data, fetched, in_flight, reply, context_reply,
          upstream_groups, heap, threads, stats, found>>

seedingVars == <<phase, layout, standings, calls, reordered, waiting, picture,
                 previous, served, served_before>>
bracketVars == <<afc_seeds, nfc_seeds, games, bracket_picture>>
navVars == <<nav, nav_from, nav_dir, nav_code,
             nav_back, nav_dir_back, nav_origin, nav_nexts>>
parserVars == <<stats, found>>
cacheVars == <<MOCK_ESPN, clock, ticks, _games_cache, _live_cache_ts,
               _live_cache_data, fetched, in_flight, reply>>
contextVars == <<context_reply>>
adapterVars == <<upstream_groups>>
threadVars == <<heap, threads>>
serviceVars == <<cacheVars, contextVars, adapterVars, threadVars>>

(***************************************************************************)
(* Bounds of the model.                                                    *)
(***************************************************************************)
\* Longest standings list the feed serves.
MaxTeams == 8
\* Requests made for one feed.
MaxCalls == 2
\* How many entries the feed gains while an answer of the upstream is on
\* its way.
MaxLate == 1
\* Longest list of bracket games.
MaxGames == 2
\* The largest number of wins, of losses and of ties the feed is given.
MaxRecord == 18
\* The largest week number a navigation request starts from.
MaxWeek == 19
\* How many years before and after FirstYear the navigation goes.
MaxYears == 1
\* Longest run of "next" requests followed.
MaxNexts == 26
\* Most division groups the upstream standings have.
MaxGroups == 2
\* How many requests are served at once.
MaxThreads == 2
\* How many times the clock advances.
MaxTicks == 2
\* Longest list handed to find_first.
MaxItems == 3

(***************************************************************************)
(* Program constants.                                                      *)
(***************************************************************************)
TOTAL_GAMES == 17
\* PLAYOFF_SPOTS one too low.
PLAYOFF_SPOTS_Six == 7 - 1
PLAYOFF_SPOTS == 7
DIVISION_WINNER_SPOTS == 4
WILD_CARD_SPOTS == 3
\* key=lambda t: t["seed"] or 99
UNSEEDED_SORT_KEY == 99

_GAMES_TTL_SECONDS == 60
_LIVE_TTL_SECONDS == 300

\* The season the navigation starts in.
FirstYear == 2025

\* Python's None in the "seed" field (seeds are 1..7) and in "eliminated_round".
NoSeed == 0
NoRound == "None"

(***************************************************************************)
(* Team names.  Python compares str values code point by code point; the   *)
(* names of the model are listed here in that order.                       *)
(***************************************************************************)
NameOrder ==
    << "Baltimore Ravens", "Buffalo Bills", "Cincinnati Bengals",
       "Cleveland Browns", "Denver Broncos", "Detroit Lions", "Houston Texans",
       "Kansas City Chiefs", "Los Angeles Chargers", "Miami Dolphins",
       "Pittsburgh Steelers" >>

NameRank(name) ==
    IF \E i \in 1..Len(NameOrder) : NameOrder[i] = name
    THEN CHOOSE i \in 1..Len(NameOrder) : NameOrder[i] = name
    ELSE 0

\* a < b on str (the empty string is below every name).
StrLess(a, b) == NameRank(a) < NameRank(b)

_TEAM_ABBREVS ==
    [n \in {NameOrder[i] : i \in 1..Len(NameOrder)} |->
        CASE n = "Baltimore Ravens" -> "BAL"
          [] n = "Buffalo Bills" -> "BUF"
          [] n = "Cincinnati Bengals" -> "CIN"
          [] n = "Cleveland Browns" -> "CLE"
          [] n = "Denver Broncos" -> "DEN"
          [] n = "Detroit Lions" -> "DET"
          [] n = "Houston Texans" -> "HOU"
          [] n = "Kansas City Chiefs" -> "KC"
          [] n = "Los Angeles Chargers" -> "LAC"
          [] n = "Miami Dolphins" -> "MIA"
          [] n = "Pittsburgh Steelers" -> "PIT"]

\* Every name of the model is in the table; the fallback of an unmapped name
\* (its first three letters, upper-cased) is needed for the empty name only.
_get_team_abbrev(team_name) ==
    IF team_name \in DOMAIN _TEAM_ABBREVS THEN _TEAM_ABBREVS[team_name]
    ELSE "UNK"

(***************************************************************************)
(* Sorting.  list.sort(key=...) is a stable sort: elements whose keys are  *)
(* equal keep their order.  Keys are 3-tuples <<int, int, str>> compared   *)
(* as Python compares tuples.  Lists of team dicts are lists of            *)
(* references: a reference is the team's position in `teams`.              *)
(***************************************************************************)
\* KeyLess that stops at the second component.
KeyLess_NoName(a, b) ==
    \/ a[1] < b[1]
    \/ a[1] = b[1] /\ a[2] < b[2]

KeyLess(a, b) ==
    \/ a[1] < b[1]
    \/ a[1] = b[1] /\ a[2] < b[2]
    \/ a[1] = b[1] /\ a[2] = b[2] /\ StrLess(a[3], b[3])

RECURSIVE InsertStable(_, _, _)
\* x is put before the first element whose key is not below x's key.
InsertStable(x, s, key) ==
    IF s = << >> THEN << x >>
    ELSE IF ~KeyLess(key[Head(s)], key[x]) THEN << x >> \o s
    ELSE << Head(s) >> \o InsertStable(x, Tail(s), key)

RECURSIVE StableSort(_, _)
StableSort(s, key) ==
    IF s = << >> THEN << >>
    ELSE InsertStable(Head(s), StableSort(Tail(s), key), key)

RECURSIVE SelectRefs(_, _)
\* [i for i in refs if keep[i]], order kept.
SelectRefs(refs, keep) ==
    IF refs = << >> THEN << >>
    ELSE IF keep[Head(refs)] THEN << Head(refs) >> \o SelectRefs(Tail(refs), keep)
    ELSE SelectRefs(Tail(refs), keep)

Refs(teams) == [i \in 1..Len(teams) |-> i]

\* s[:n]
Prefix(s, n) == SubSeq(s, 1, IF Len(s) < n THEN Len(s) ELSE n)
\* s[n:]
Suffix(s, n) == SubSeq(s, n + 1, Len(s))

Range(s) == {s[i] : i \in 1..Len(s)}

Max0(S) == IF S = {} THEN 0 ELSE CHOOSE m \in S : \A x \in S : x <= m

\* The position of x in s (0 when absent); s holds no element twice.
IndexOf(s, x) ==
    IF \E i \in 1..Len(s) : s[i] = x THEN CHOOSE i \in 1..Len(s) : s[i] = x ELSE 0

(***************************************************************************)
(* _compute_playoff_picture_from_standings                                 *)
(***************************************************************************)
Detail(text, n) == [text |-> text, n |-> n]

\* The division names of the model.
Divisions ==
    {"AFC East", "AFC North", "AFC South", "AFC West", "NFC East", "NFC North"}

\* division.startswith("AFC")
StartsWithAFC(division) ==
    division \in {"AFC East", "AFC North", "AFC South", "AFC West"}

\* TeamStatus without the clamp of games_remaining at 0.
TeamStatus_NoClamp(team) ==
    [ team |-> team.team,
      abbreviation |-> _get_team_abbrev(team.team),
      conference |-> IF StartsWithAFC(team.division) THEN "AFC" ELSE "NFC",
      division |-> team.division,
      wins |-> team.wins,
      losses |-> team.losses,
      ties |-> team.ties,
      games_remaining |-> TOTAL_GAMES - (team.wins + team.losses + team.ties),
      max_possible_wins |->
          team.wins + (TOTAL_GAMES - (team.wins + team.losses + team.ties)),
      seed |-> NoSeed,
      status |-> "in_hunt",
      status_detail |-> Detail("In the hunt", 0),
      eliminated_round |-> NoRound,
      playoff_wins |-> 0,
      playoff_losses |-> 0 ]

\* The team_status dict built for one standings entry.
TeamStatus(team) ==
    LET division == team.division
        conf == IF StartsWithAFC(division) THEN "AFC" ELSE "NFC"
        wins == team.wins
        losses == team.losses
        ties == team.ties
        games_played == wins + losses + ties
        games_remaining ==
            IF TOTAL_GAMES - games_played > 0 THEN TOTAL_GAMES - games_played ELSE 0
        max_possible_wins == wins + games_remaining
    IN  [ team |-> team.team,
          abbreviation |-> _get_team_abbrev(team.team),
          conference |-> conf,
          division |-> division,
          wins |-> wins,
          losses |-> losses,
          ties |-> ties,
          games_remaining |-> games_remaining,
          max_possible_wins |-> max_possible_wins,
          seed |-> NoSeed,
          status |-> "in_hunt",
          status_detail |-> Detail("In the hunt", 0),
          eliminated_round |-> NoRound,
          playoff_wins |-> 0,
          playoff_losses |-> 0 ]

RECURSIVE ConferenceTeams(_, _, _)
\* The loop over standings: each entry's team_status is appended to the list
\* of its conference.
ConferenceTeams(acc, entries, conf) ==
    IF entries = << >> THEN acc
    ELSE LET ts == TeamStatus(Head(entries))
         IN  ConferenceTeams(IF ts.conference = conf THEN Append(acc, ts) ELSE acc,
                             Tail(entries), conf)

\* sort_key without the name.
sort_key_NoName(t) == << -t.wins, t.losses, "" >>

sort_key(t) == << -t.wins, t.losses, t.team >>

SortKeys(teams) == [i \in 1..Len(teams) |-> sort_key(teams[i])]

\* divisions[div]: the teams of the division in list order, then sorted;
\* leaders[div] is the first of them.  A reference to the team is returned.
get_division_leaders(teams) ==
    [div \in {teams[i].division : i \in 1..Len(teams)} |->
        StableSort(SelectRefs(Refs(teams),
                              [i \in 1..Len(teams) |-> teams[i].division = div]),
                   SortKeys(teams))[1]]

leader_names(teams, division_leaders) ==
    {teams[division_leaders[div]].team : div \in DOMAIN division_leaders}

\* div_winners, sorted by record.
div_winners(teams, names) ==
    StableSort(SelectRefs(Refs(teams),
                          [i \in 1..Len(teams) |-> teams[i].team \in names]),
               SortKeys(teams))

\* non_winners, sorted by record.
non_winners(teams, names) ==
    StableSort(SelectRefs(Refs(teams),
                          [i \in 1..Len(teams) |-> teams[i].team \notin names]),
               SortKeys(teams))

\* nw is non_winners.
seventh_place_wins(teams, nw) ==
    IF Len(nw) >= WILD_CARD_SPOTS THEN teams[nw[WILD_CARD_SPOTS]].wins ELSE 0

eighth_place_max(teams, nw) ==
    IF Len(nw) > WILD_CARD_SPOTS
    THEN teams[nw[WILD_CARD_SPOTS + 1]].max_possible_wins
    ELSE 0

\* max((t["max_possible_wins"] for t in div_second_place), default=0)
div_second_max(teams, r) ==
    Max0({teams[j].max_possible_wins : j \in
            {k \in 1..Len(teams) : /\ teams[k].division = teams[r].division
                                   /\ teams[k].team # teams[r].team}})

\* SeedDivisionWinner that gives clinched_bye to every clinched leader.
SeedDivisionWinner_AllBye(teams, r, i) ==
    IF teams[r].wins > div_second_max(teams, r)
    THEN [teams[r] EXCEPT !.seed = i + 1, !.status = "clinched_bye",
                          !.status_detail = Detail("Clinched #1 seed", 0)]
    ELSE [teams[r] EXCEPT !.seed = i + 1, !.status = "in_position",
                          !.status_detail = Detail("Division leader (#n seed)", i + 1)]

\* The body of the loop over div_winners[:DIVISION_WINNER_SPOTS]; i counts from 0.
SeedDivisionWinner(teams, r, i) ==
    IF teams[r].wins > div_second_max(teams, r)
    THEN IF i = 0
         THEN [teams[r] EXCEPT !.seed = i + 1, !.status = "clinched_bye",
                               !.status_detail = Detail("Clinched #1 seed", 0)]
         ELSE [teams[r] EXCEPT !.seed = i + 1, !.status = "clinched_division",
                               !.status_detail =
                                   Detail("Clinched division (#n seed)", i + 1)]
    ELSE [teams[r] EXCEPT !.seed = i + 1, !.status = "in_position",
                          !.status_detail = Detail("Division leader (#n seed)", i + 1)]

\* WildCardStatus with >= for > in the clinch test.
WildCardStatus_AtLeast(team, seed, eighth) ==
    IF team.wins >= eighth
    THEN [team EXCEPT !.seed = seed, !.status = "clinched_wildcard",
                      !.status_detail = Detail("Clinched wild card (#n seed)", seed)]
    ELSE [team EXCEPT !.seed = seed, !.status = "in_position",
                      !.status_detail = Detail("Wild card (#n seed)", seed)]

\* The dict of a wild card once it has its seed; eighth is eighth_place_max.
WildCardStatus(team, seed, eighth) ==
    IF team.wins > eighth
    THEN [team EXCEPT !.seed = seed, !.status = "clinched_wildcard",
                      !.status_detail = Detail("Clinched wild card (#n seed)", seed)]
    ELSE [team EXCEPT !.seed = seed, !.status = "in_position",
                      !.status_detail = Detail("Wild card (#n seed)", seed)]

\* SeedWildCard with seed = DIVISION_WINNER_SPOTS + i.
SeedWildCard_OffByOne(teams, r, i, eighth) ==
    WildCardStatus(teams[r], DIVISION_WINNER_SPOTS + i, eighth)

\* The body of the loop over non_winners[:WILD_CARD_SPOTS]; i counts from 0.
SeedWildCard(teams, r, i, eighth) ==
    WildCardStatus(teams[r], DIVISION_WINNER_SPOTS + i + 1, eighth)

\* strictly_ahead with >= for >.
strictly_ahead_OrLevel(teams, r, nw) ==
    Cardinality({o \in Range(nw) :
                    /\ teams[o].team # teams[r].team
                    /\ teams[o].wins >= teams[r].max_possible_wins})

strictly_ahead(teams, r, nw) ==
    Cardinality({o \in Range(nw) :
                    /\ teams[o].team # teams[r].team
                    /\ teams[o].wins > teams[r].max_possible_wins})

at_same_level(teams, r, nw) ==
    Cardinality({o \in Range(nw) :
                    /\ teams[o].team # teams[r].team
                    /\ teams[o].wins = teams[r].max_possible_wins})

\* can_win_division without the comparison of wins.
can_win_division_AnyLeader(teams, r, division_leaders) ==
    teams[r].division \in DOMAIN division_leaders

\* division_leaders.get(team["division"]) is never None: the team's own
\* division has a leader.
can_win_division(teams, r, division_leaders) ==
    /\ teams[r].division \in DOMAIN division_leaders
    /\ teams[r].max_possible_wins >= teams[division_leaders[teams[r].division]].wins

\* WildCardRace that eliminates a team with two teams strictly ahead.
WildCardRace_TwoAhead(team, ahead, level, seventh) ==
    IF ahead >= WILD_CARD_SPOTS - 1
    THEN [team EXCEPT !.status = "eliminated",
                      !.status_detail = Detail("Eliminated from playoffs", 0)]
    ELSE IF ahead + level >= WILD_CARD_SPOTS
    THEN [team EXCEPT !.status = "in_hunt",
                      !.status_detail =
                          Detail("Long shot (needs help + tiebreakers)", 0)]
    ELSE IF team.max_possible_wins < seventh
    THEN [team EXCEPT !.status = "eliminated",
                      !.status_detail = Detail("Eliminated from playoffs", 0)]
    ELSE IF seventh - team.wins > 0
    THEN [team EXCEPT !.status = "in_hunt",
                      !.status_detail = Detail("n game(s) back", seventh - team.wins)]
    ELSE [team EXCEPT !.status = "in_hunt",
                      !.status_detail = Detail("In wild card hunt", 0)]

\* The wild-card branches of the loop over non_winners[WILD_CARD_SPOTS:];
\* ahead is strictly_ahead, level is at_same_level, seventh is
\* seventh_place_wins.
WildCardRace(team, ahead, level, seventh) ==
    IF ahead >= WILD_CARD_SPOTS
    THEN [team EXCEPT !.status = "eliminated",
                      !.status_detail = Detail("Eliminated from playoffs", 0)]
    ELSE IF ahead + level >= WILD_CARD_SPOTS
    THEN [team EXCEPT !.status = "in_hunt",
                      !.status_detail =
                          Detail("Long shot (needs help + tiebreakers)", 0)]
    ELSE IF team.max_possible_wins < seventh
    THEN [team EXCEPT !.status = "eliminated",
                      !.status_detail = Detail("Eliminated from playoffs", 0)]
    ELSE IF seventh - team.wins > 0
    THEN [team EXCEPT !.status = "in_hunt",
                      !.status_detail = Detail("n game(s) back", seventh - team.wins)]
    ELSE [team EXCEPT !.status = "in_hunt",
                      !.status_detail = Detail("In wild card hunt", 0)]

\* The division branch of that loop; leader_wins is div_leader["wins"].
DivisionRace(team, leader_wins) ==
    IF leader_wins - team.wins > 0
    THEN [team EXCEPT !.status = "in_hunt",
                      !.status_detail =
                          Detail("n game(s) back in division", leader_wins - team.wins)]
    ELSE [team EXCEPT !.status = "in_hunt",
                      !.status_detail = Detail("In division race", 0)]

\* ClassifyOutside without the division check that comes first.
ClassifyOutside_NoDivisionRace(teams, r, division_leaders, nw) ==
    WildCardRace(teams[r], strictly_ahead(teams, r, nw),
                 at_same_level(teams, r, nw), seventh_place_wins(teams, nw))

\* The body of the loop over non_winners[WILD_CARD_SPOTS:].
ClassifyOutside(teams, r, division_leaders, nw) ==
    IF can_win_division(teams, r, division_leaders)
    THEN DivisionRace(teams[r], teams[division_leaders[teams[r].division]].wins)
    ELSE WildCardRace(teams[r], strictly_ahead(teams, r, nw),
                      at_same_level(teams, r, nw), seventh_place_wins(teams, nw))

\* The team dicts after the three loops of assign_playoff_status; dw is
\* div_winners and nw is non_winners.  The loops write to disjoint dicts
\* (seeded winners, seeded wild cards, the remaining non-winners) and read
\* only fields that no loop writes.
SeedAndClassify(teams, division_leaders, dw, nw) ==
    [r \in 1..Len(teams) |->
        IF r \in Range(Prefix(dw, DIVISION_WINNER_SPOTS))
        THEN SeedDivisionWinner(teams, r, IndexOf(dw, r) - 1)
        ELSE IF r \in Range(Prefix(nw, WILD_CARD_SPOTS))
        THEN SeedWildCard(teams, r, IndexOf(nw, r) - 1, eighth_place_max(teams, nw))
        ELSE IF r \in Range(Suffix(nw, WILD_CARD_SPOTS))
        THEN ClassifyOutside(teams, r, division_leaders, nw)
        ELSE teams[r]]

\* The pools of assign_playoff_status, given its division_leaders.
PoolsAndStatus(teams, division_leaders) ==
    SeedAndClassify(teams, division_leaders,
                    div_winners(teams, leader_names(teams, division_leaders)),
                    non_winners(teams, leader_names(teams, division_leaders)))

\* SeededThenUnseeded with the unseeded teams left in list order.
SeededThenUnseeded_ListOrder(done) ==
    [k \in 1..Len(done) |->
        done[(StableSort(SelectRefs(Refs(done),
                                    [i \in 1..Len(done) |-> done[i].seed # NoSeed]),
                         [i \in 1..Len(done) |->
                             << IF done[i].seed # NoSeed THEN done[i].seed
                                ELSE UNSEEDED_SORT_KEY, 0, "" >>])
              \o SelectRefs(Refs(done),
                            [i \in 1..Len(done) |-> done[i].seed = NoSeed]))[k]]]

\* return seeded + unseeded
SeededThenUnseeded(done) ==
    [k \in 1..Len(done) |->
        done[(StableSort(SelectRefs(Refs(done),
                                    [i \in 1..Len(done) |-> done[i].seed # NoSeed]),
                         [i \in 1..Len(done) |->
                             << IF done[i].seed # NoSeed THEN done[i].seed
                                ELSE UNSEEDED_SORT_KEY, 0, "" >>])
              \o StableSort(SelectRefs(Refs(done),
                                       [i \in 1..Len(done) |-> done[i].seed = NoSeed]),
                            SortKeys(done)))[k]]]

assign_playoff_status(teams) ==
    IF Len(teams) < PLAYOFF_SPOTS THEN teams
    ELSE SeededThenUnseeded(PoolsAndStatus(teams, get_division_leaders(teams)))

_compute_playoff_picture_from_standings(entries) ==
    [ afc_teams |-> assign_playoff_status(ConferenceTeams(<< >>, entries, "AFC")),
      nfc_teams |-> assign_playoff_status(ConferenceTeams(<< >>, entries, "NFC")) ]

\* The response of the regular-season branch of _get_playoff_picture.
RegularResponse(computed) ==
    [ season_year |-> 2024,
      season_type |-> 2,
      week |-> 15,
      afc_teams |-> computed.afc_teams,
      nfc_teams |-> computed.nfc_teams,
      super_bowl_teams |-> << >> ]

\* _get_playoff_picture, regular-season branch, on the standings the feed
\* serves.
RegularPicture(entries) ==
    RegularResponse(_compute_playoff_picture_from_standings(entries))

\* No response yet.
NoPicture ==
    [ season_year |-> 0, season_type |-> 0, week |-> 0,
      afc_teams |-> << >>, nfc_teams |-> << >>, super_bowl_teams |-> << >> ]

\* A response that is a picture, not an exception.
IsPicture(response) == "afc_teams" \in DOMAIN response

\* None or a list, as _live_cache_data is: NoData or Cached(list), so that
\* the empty list is not None.
NoData == << >>
Cached(list) == << list >>
ListOf(cached) == cached[1]

(***************************************************************************)
(* The standings the feed serves.  The k-th entry of the list is the team  *)
(* TeamNames[k]; its division is given by the layout of the feed, its      *)
(* record is one of the records of the phase of the season.                *)
(***************************************************************************)
TeamNames ==
    << "Kansas City Chiefs", "Buffalo Bills", "Pittsburgh Steelers",
       "Baltimore Ravens", "Houston Texans", "Denver Broncos", "Miami Dolphins",
       "Cincinnati Bengals", "Los Angeles Chargers", "Cleveland Browns" >>

Layouts ==
    << \* the four divisions of a conference, filled in turn
       << "AFC East", "AFC North", "AFC South", "AFC West", "AFC East",
          "AFC North", "AFC South", "AFC West", "AFC East", "AFC North" >>,
       \* a partial feed: two divisions only
       << "AFC East", "AFC East", "AFC North", "AFC North", "AFC North",
          "AFC North", "AFC North", "AFC East", "AFC North", "AFC East" >>,
       \* a division of one team beside a large one
       << "AFC East", "AFC North", "AFC North", "AFC North", "AFC North",
          "AFC North", "AFC North", "AFC North", "AFC North", "AFC North" >>,
       \* both conferences
       << "AFC East", "NFC East", "AFC North", "AFC South", "AFC West",
          "AFC East", "AFC North", "AFC South", "NFC North", "AFC West" >> >>

\* <<wins, losses, ties>>
Records(p) ==
    CASE p = "opening" -> {<< 0, 0, 0 >>, << 0, 1, 0 >>}
      [] p = "final" -> {<< 8, 9, 0 >>, << 9, 8, 0 >>}
      [] p = "closing" -> {<< 7, 7, 1 >>, << 8, 9, 0 >>, << 9, 8, 0 >>}

SlotOf(k, s) == s[((k - 1) % Len(s)) + 1]

Entry(k, rec) ==
    [ team |-> SlotOf(k, TeamNames),
      division |-> SlotOf(k, Layouts[layout]),
      wins |-> rec[1], losses |-> rec[2], ties |-> rec[3] ]

Swap(s, i, j) ==
    [k \in 1..Len(s) |-> IF k = i THEN s[j] ELSE IF k = j THEN s[i] ELSE s[k]]

InitSeeding(phases) ==
    /\ phase \in phases
    /\ layout \in 1..Len(Layouts)
    /\ standings = << >>
    /\ calls = 0
    /\ reordered = FALSE
    /\ waiting = EmptyBag
    /\ picture = NoPicture
    /\ previous = NoPicture
    /\ served = NoData
    /\ served_before = NoData

\* The answers on their way to the requests that wait lack fewer than
\* MaxLate entries of the feed.
AnswersAreRecent ==
    \A r \in BagToSet(waiting) :
        r.answer # NoData => Len(standings) - Len(ListOf(r.answer)) < MaxLate

\* The upstream standings gain an entry, whether or not a request waits.
FeedAddsTeam ==
    /\ calls = 0
    /\ Len(standings) < MaxTeams
    /\ AnswersAreRecent
    /\ \E rec \in Records(phase) :
          standings' = Append(standings, Entry(Len(standings) + 1, rec))
    /\ UNCHANGED <<phase, layout, calls, reordered, waiting, picture, previous,
                   served, served_before>>
    /\ UNCHANGED <<bracketVars, navVars, parserVars, serviceVars>>

\* The upstream serves one entry with any record, more than TOTAL_GAMES games
\* included: the counts are taken from the feed as they come.
FeedServesRecord ==
    /\ calls = 0
    /\ standings = << >>
    /\ \E w, l, t \in 0..MaxRecord : standings' = << Entry(1, << w, l, t >>) >>
    /\ UNCHANGED <<phase, layout, calls, reordered, waiting, picture, previous,
                   served, served_before>>
    /\ UNCHANGED <<bracketVars, navVars, parserVars, serviceVars>>

\* The upstream serves the same entries in another order.
FeedReorders ==
    /\ calls = 1
    /\ ~reordered
    /\ \E i \in 1..(Len(standings) - 1) : standings' = Swap(standings, i, i + 1)
    /\ reordered' = TRUE
    /\ UNCHANGED <<phase, layout, calls, waiting, picture, previous, served,
                   served_before>>
    /\ UNCHANGED <<bracketVars, navVars, parserVars, serviceVars>>

(***************************************************************************)
(* _compute_playoff_picture_from_bracket                                   *)
(***************************************************************************)
\* Python's None in a game's "winner".
NoWinner == "None"

RECURSIVE SuperBowlTeams(_)
\* The loop that collects super_bowl_teams, a list.
SuperBowlTeams(gs) ==
    IF gs = << >> THEN << >>
    ELSE LET game == Head(gs)
             home == IF game.home_team # "" THEN << game.home_team >> ELSE << >>
             away == IF game.away_team # "" THEN << game.away_team >> ELSE << >>
         IN  (IF game.conference = "Super Bowl" THEN home \o away ELSE << >>)
                 \o SuperBowlTeams(Tail(gs))

\* ReplayGame that records the round of a win, not of a loss.
ReplayGame_RoundOfWin(tally, game, team_name, conf) ==
    IF game.conference # conf /\ game.conference # "Super Bowl" THEN tally
    ELSE IF game.status # "final" THEN tally
    ELSE IF team_name \in {game.home_team, game.away_team}
    THEN IF game.winner = team_name
         THEN [tally EXCEPT !.playoff_wins = @ + 1, !.elim_round = game.round]
         ELSE [tally EXCEPT !.playoff_losses = @ + 1]
    ELSE tally

\* ReplayGame without the test of the game's status.
ReplayGame_AnyStatus(tally, game, team_name, conf) ==
    IF game.conference # conf /\ game.conference # "Super Bowl" THEN tally
    ELSE IF team_name \in {game.home_team, game.away_team}
    THEN IF game.winner = team_name
         THEN [tally EXCEPT !.playoff_wins = @ + 1]
         ELSE [tally EXCEPT !.playoff_losses = @ + 1, !.elim_round = game.round]
    ELSE tally

\* One pass of the loop over games for the team of a seed entry.
ReplayGame(tally, game, team_name, conf) ==
    IF game.conference # conf /\ game.conference # "Super Bowl" THEN tally
    ELSE IF game.status # "final" THEN tally
    ELSE IF team_name \in {game.home_team, game.away_team}
    THEN IF game.winner = team_name
         THEN [tally EXCEPT !.playoff_wins = @ + 1]
         ELSE [tally EXCEPT !.playoff_losses = @ + 1, !.elim_round = game.round]
    ELSE tally

RECURSIVE Replay(_, _, _, _)
Replay(tally, gs, team_name, conf) ==
    IF gs = << >> THEN tally
    ELSE Replay(ReplayGame(tally, Head(gs), team_name, conf), Tail(gs), team_name, conf)

\* BracketStatus with the eliminated flag tested before the Super Bowl list.
BracketStatus_FlagFirst(seed_info, conf, tally, in_super_bowl) ==
    [ team |-> seed_info.team,
      abbreviation |-> seed_info.abbreviation,
      conference |-> conf,
      division |-> "",
      wins |-> 0,
      losses |-> 0,
      ties |-> 0,
      seed |-> seed_info.seed,
      status |-> IF seed_info.eliminated THEN "eliminated"
                 ELSE IF in_super_bowl THEN "super_bowl"
                 ELSE "alive",
      status_detail |->
          IF seed_info.eliminated
          THEN IF tally.elim_round \notin {NoRound, ""}
               THEN "Eliminated in " \o tally.elim_round
               ELSE "Eliminated"
          ELSE IF in_super_bowl THEN "Super Bowl"
          ELSE "Still alive",
      eliminated_round |-> tally.elim_round,
      playoff_wins |-> tally.playoff_wins,
      playoff_losses |-> tally.playoff_losses ]

\* The status of a seed entry's team; tally is the outcome of the replay.
\* `if elim_round` fails for None and for the empty string.
BracketStatus(seed_info, conf, tally, in_super_bowl) ==
    [ team |-> seed_info.team,
      abbreviation |-> seed_info.abbreviation,
      conference |-> conf,
      division |-> "",
      wins |-> 0,
      losses |-> 0,
      ties |-> 0,
      seed |-> seed_info.seed,
      status |-> IF in_super_bowl THEN "super_bowl"
                 ELSE IF seed_info.eliminated THEN "eliminated"
                 ELSE "alive",
      status_detail |->
          IF in_super_bowl THEN "Super Bowl"
          ELSE IF seed_info.eliminated
          THEN IF tally.elim_round \notin {NoRound, ""}
               THEN "Eliminated in " \o tally.elim_round
               ELSE "Eliminated"
          ELSE "Still alive",
      eliminated_round |-> tally.elim_round,
      playoff_wins |-> tally.playoff_wins,
      playoff_losses |-> tally.playoff_losses ]

\* The dict appended for one seed entry.  The loop over afc_seeds and the loop
\* over nfc_seeds have the same body, with "AFC" and "NFC" as conf.
BracketTeam(seed_info, conf, gs) ==
    BracketStatus(seed_info, conf,
                  Replay([elim_round |-> NoRound, playoff_wins |-> 0,
                          playoff_losses |-> 0], gs, seed_info.team, conf),
                  seed_info.team \in Range(SuperBowlTeams(gs)))

_compute_playoff_picture_from_bracket(bracket) ==
    [ afc_teams |->
          [k \in 1..Len(bracket.afc_seeds) |->
              BracketTeam(bracket.afc_seeds[k], "AFC", bracket.games)],
      nfc_teams |->
          [k \in 1..Len(bracket.nfc_seeds) |->
              BracketTeam(bracket.nfc_seeds[k], "NFC", bracket.games)],
      super_bowl_teams |-> SuperBowlTeams(bracket.games) ]

\* The response of the postseason branch of _get_playoff_picture.
PostseasonResponse(bracket, computed) ==
    [ season_year |-> bracket.season_year,
      season_type |-> 3,
      week |-> 1,
      afc_teams |-> computed.afc_teams,
      nfc_teams |-> computed.nfc_teams,
      super_bowl_teams |-> computed.super_bowl_teams ]

\* _get_playoff_picture, postseason branch.
PostseasonPicture(bracket) ==
    PostseasonResponse(bracket, _compute_playoff_picture_from_bracket(bracket))

(***************************************************************************)
(* The bracket the fixture serves.                                         *)
(***************************************************************************)
AfcSeedTeam == "Kansas City Chiefs"
NfcSeedTeam == "Detroit Lions"

\* <<home_team, away_team>>
Matchups ==
    { << "Kansas City Chiefs", "Buffalo Bills" >>,
      << "Detroit Lions", "Kansas City Chiefs" >> }

\* <<round, conference>>
RoundTags ==
    { << "Wild Card", "AFC" >>, << "Divisional", "AFC" >>,
      << "Divisional", "NFC" >>, << "Super Bowl", "Super Bowl" >>,
      << "", "AFC" >> }

Game(tag, matchup, status, winner) ==
    [ round |-> tag[1], conference |-> tag[2],
      home_team |-> matchup[1], away_team |-> matchup[2],
      status |-> status, winner |-> winner ]

\* A final game has a winner, an upcoming one has none.
GameChoices ==
    { Game(tag, m, "final", m[1]) : tag \in RoundTags, m \in Matchups }
        \cup { Game(tag, m, "final", m[2]) : tag \in RoundTags, m \in Matchups }
        \cup { Game(tag, m, "upcoming", NoWinner) : tag \in RoundTags, m \in Matchups }

SeedEntry(team, eliminated) ==
    [ seed |-> 1, team |-> team, abbreviation |-> _get_team_abbrev(team),
      eliminated |-> eliminated ]

\* The fixture "playoff_seeds": an object.
FixtureBracket ==
    [ season_year |-> 2024, afc_seeds |-> afc_seeds, nfc_seeds |-> nfc_seeds,
      games |-> games ]

empty_bracket ==
    [ season_year |-> 2024, afc_seeds |-> << >>, nfc_seeds |-> << >>,
      games |-> << >> ]

\* The fixture is read only when the process runs on fixtures.
_get_playoff_bracket == IF MOCK_ESPN THEN FixtureBracket ELSE empty_bracket

InitBracket ==
    /\ afc_seeds \in {<< >>} \cup {<< SeedEntry(AfcSeedTeam, e) >> : e \in BOOLEAN}
    /\ nfc_seeds \in {<< >>} \cup {<< SeedEntry(NfcSeedTeam, e) >> : e \in BOOLEAN}
    /\ games = << >>
    /\ bracket_picture = NoPicture

\* The fixture gains a game.
BracketAddsGame ==
    /\ bracket_picture = NoPicture
    /\ Len(games) < MaxGames
    /\ \E g \in GameChoices : games' = Append(games, g)
    /\ UNCHANGED <<afc_seeds, nfc_seeds, bracket_picture>>
    /\ UNCHANGED <<seedingVars, navVars, parserVars, serviceVars>>

\* GET /playoffs/picture?seasonType=3
GetPostseasonPicture ==
    /\ bracket_picture = NoPicture
    /\ bracket_picture' = PostseasonPicture(_get_playoff_bracket)
    /\ UNCHANGED <<afc_seeds, nfc_seeds, games>>
    /\ UNCHANGED <<seedingVars, navVars, parserVars, serviceVars>>

(***************************************************************************)
(* get_season_navigation and GET /games/weekly/navigation                  *)
(***************************************************************************)
\* season_limits with a regular season of 17 weeks.
season_limits_Seventeen(season_type) ==
    CASE season_type = 1 -> << 1, 4 >>
      [] season_type = 2 -> << 1, 17 >>
      [] season_type = 3 -> << 1, 4 >>
      [] OTHER -> << 1, 18 >>

\* season_limits.get(season_type, (1, 18)): <<min_week, max_week>>
season_limits(season_type) ==
    CASE season_type = 1 -> << 1, 4 >>
      [] season_type = 2 -> << 1, 18 >>
      [] season_type = 3 -> << 1, 4 >>
      [] OTHER -> << 1, 18 >>

NavigationParams(year, week, seasonType) ==
    [ year |-> year, week |-> week, seasonType |-> seasonType ]

\* get_season_navigation that keeps the year after the postseason.
get_season_navigation_SameYear(year, week, season_type, direction) ==
    IF direction = "next"
    THEN IF week < season_limits(season_type)[2]
         THEN NavigationParams(year, week + 1, season_type)
         ELSE IF season_type = 1 THEN NavigationParams(year, 1, 2)
         ELSE IF season_type = 2 THEN NavigationParams(year, 1, 3)
         ELSE NavigationParams(year, 1, 1)
    ELSE IF direction = "prev"
    THEN IF week > season_limits(season_type)[1]
         THEN NavigationParams(year, week - 1, season_type)
         ELSE IF season_type = 1 THEN NavigationParams(year - 1, 4, 3)
         ELSE IF season_type = 2 THEN NavigationParams(year, 4, 1)
         ELSE NavigationParams(year, 18, 2)
    ELSE NavigationParams(year, week, season_type)

\* get_season_navigation that goes back from the regular season to week 3
\* of the preseason.
get_season_navigation_ShortPreseason(year, week, season_type, direction) ==
    IF direction = "next"
    THEN IF week < season_limits(season_type)[2]
         THEN NavigationParams(year, week + 1, season_type)
         ELSE IF season_type = 1 THEN NavigationParams(year, 1, 2)
         ELSE IF season_type = 2 THEN NavigationParams(year, 1, 3)
         ELSE NavigationParams(year + 1, 1, 1)
    ELSE IF direction = "prev"
    THEN IF week > season_limits(season_type)[1]
         THEN NavigationParams(year, week - 1, season_type)
         ELSE IF season_type = 1 THEN NavigationParams(year - 1, 4, 3)
         ELSE IF season_type = 2 THEN NavigationParams(year, 3, 1)
         ELSE NavigationParams(year, 18, 2)
    ELSE NavigationParams(year, week, season_type)

get_season_navigation(year, week, season_type, direction) ==
    IF direction = "next"
    THEN IF week < season_limits(season_type)[2]
         THEN NavigationParams(year, week + 1, season_type)
         ELSE IF season_type = 1 THEN NavigationParams(year, 1, 2)
         ELSE IF season_type = 2 THEN NavigationParams(year, 1, 3)
         ELSE NavigationParams(year + 1, 1, 1)
    ELSE IF direction = "prev"
    THEN IF week > season_limits(season_type)[1]
         THEN NavigationParams(year, week - 1, season_type)
         ELSE IF season_type = 1 THEN NavigationParams(year - 1, 4, 3)
         ELSE IF season_type = 2 THEN NavigationParams(year, 4, 1)
         ELSE NavigationParams(year, 18, 2)
    ELSE NavigationParams(year, week, season_type)

\* The values of the query parameters seasonType and direction: the handler
\* takes any int and any str.
SeasonTypes == {0, 1, 2, 3, 99}
Directions == {"next", "prev", "sideways"}

\* No navigation request yet.
NoDirection == ""

InitNavigation ==
    /\ nav \in {NavigationParams(FirstYear, w, t) : w \in 0..MaxWeek, t \in SeasonTypes}
    /\ nav_from = nav
    /\ nav_dir = NoDirection
    /\ nav_code = 0
    /\ nav_back = nav
    /\ nav_dir_back = NoDirection
    /\ nav_origin = nav
    /\ nav_nexts = 0

\* GET /games/weekly/navigation for the page shown; the page that follows is
\* the response.  A direction other than "next" and "prev" is answered 400.
get_navigation_params ==
    /\ \E direction \in Directions :
          /\ nav_dir' = direction
          /\ IF direction \notin {"next", "prev"}
             THEN nav_code' = 400 /\ nav' = nav
             ELSE /\ nav_code' = 200
                  /\ nav' = get_season_navigation(nav.year, nav.week,
                                                  nav.seasonType, direction)
          /\ IF direction = "next"
             THEN /\ nav_nexts < MaxNexts
                  /\ nav_nexts' = nav_nexts + 1
                  /\ nav_origin' = nav_origin
             ELSE nav_nexts' = 0 /\ nav_origin' = nav'
    /\ nav'.year - FirstYear \in (-MaxYears)..MaxYears
    /\ nav_from' = nav
    /\ nav_back' = nav_from
    /\ nav_dir_back' = nav_dir
    /\ UNCHANGED <<seedingVars, bracketVars, parserVars, serviceVars>>

(***************************************************************************)
(* find_first (functions/src/standings_parser.py)                          *)
(***************************************************************************)
\* The conditions of class Conditions that test item["name"], each named by
\* the name it looks for.
StatConditions == {"wins", "losses", "ties"}

Holds(condition, item) == item.name = condition

NoItem == [ name |-> "", value |-> 0 ]

RECURSIVE find_first(_, _)
\* next(filter(condition, list_of_items)); StopIteration is turned into
\* Exception("No item found with the given condition").
find_first(list_of_items, condition) ==
    IF list_of_items = << >>
    THEN [ raised |-> "Exception", value |-> NoItem ]
    ELSE IF Holds(condition, Head(list_of_items))
    THEN [ raised |-> "", value |-> Head(list_of_items) ]
    ELSE find_first(Tail(list_of_items), condition)

\* find_first has not been called.
NotCalled == [ condition |-> "", raised |-> "", value |-> NoItem ]

StatItems == {[ name |-> n, value |-> v ] : n \in StatConditions, v \in {1, 2}}

InitParser ==
    /\ stats = << >>
    /\ found = NotCalled

\* The stats list of an entry gains an item.
StatsGainItem ==
    /\ found = NotCalled
    /\ Len(stats) < MaxItems
    /\ \E item \in StatItems : stats' = Append(stats, item)
    /\ UNCHANGED found
    /\ UNCHANGED <<seedingVars, bracketVars, navVars, serviceVars>>

\* find_first(stats, condition)
FindFirst ==
    /\ found = NotCalled
    /\ \E condition \in StatConditions :
          found' = [ condition |-> condition,
                     raised |-> find_first(stats, condition).raised,
                     value |-> find_first(stats, condition).value ]
    /\ UNCHANGED stats
    /\ UNCHANGED <<seedingVars, bracketVars, navVars, serviceVars>>

(***************************************************************************)
(* The cached fetchers _get_weekly_games and _get_live_standings.          *)
(***************************************************************************)
\* A query parameter that is not provided (None).
NoParam == 0

\* The query parameters of GET /games/weekly.
Requests == {[ year |-> FirstYear, week |-> w, season_type |-> 2 ] : w \in {NoParam, 1}}

\* The cache key: the URL, which differs from the base URL by the parameters
\* provided.
Url(year, week, season_type) == << year, week, season_type >>
Urls == {Url(r.year, r.week, r.season_type) : r \in Requests}

\* Lists of games and of standings entries, each item named.
GameLists == {<< "game_a" >>, << "game_a", "game_b" >>}
StandingsLists == {<< "Buffalo Bills" >>, << "Buffalo Bills", "Miami Dolphins" >>}
FixtureGames == << "fixture_game" >>
FixtureStandings == << "Fixture Team" >>

\* What httpx.get, raise_for_status and resp.json() come to: an exception,
\* a JSON value that is not an object, or an object, given by the list the
\* extraction makes of it (empty when the object lacks the content).
Failures == {"timeout", "http_status", "request_error", "not_json", "not_object"}
Upstream(lists) ==
    {[ kind |-> k, body |-> << >> ] : k \in Failures}
        \cup {[ kind |-> "object", body |-> b ] : b \in lists \cup {<< >>}}

\* url not in _games_cache; the code never stores an empty list.
NoEntry == [ ts |-> -1, data |-> << >> ]
\* _live_cache_ts is None.
NoTime == -1

Served(data) == [ raised |-> 0, detail |-> "", data |-> data ]
Raised(status_code, detail) ==
    [ raised |-> status_code, detail |-> detail, data |-> << >> ]

\* FetchWeeklyGames that stores an answer without games as well.
FetchWeeklyGames_StoresEmpty(entry, now, up) ==
    CASE up.kind = "object" ->
             [ entry |-> [ ts |-> now, data |-> up.body ], out |-> Served(up.body) ]
      [] up.kind = "timeout" ->
             [ entry |-> entry,
               out |-> IF entry # NoEntry THEN Served(entry.data)
                       ELSE Raised(504, "ESPN API timeout") ]
      [] up.kind = "http_status" ->
             [ entry |-> entry,
               out |-> IF entry # NoEntry THEN Served(entry.data)
                       ELSE Raised(502, "ESPN API error: {status}") ]
      [] up.kind = "request_error" ->
             [ entry |-> entry,
               out |-> IF entry # NoEntry THEN Served(entry.data)
                       ELSE Raised(502, "ESPN API request failed") ]
      [] OTHER ->
             [ entry |-> entry,
               out |-> IF entry # NoEntry THEN Served(entry.data)
                       ELSE Raised(500, "Unexpected error fetching games") ]

\* _get_weekly_games past the fresh-cache test: the try block and its
\* handlers.  entry is _games_cache.get(url).
FetchWeeklyGames(entry, now, up) ==
    CASE up.kind = "object" ->
             IF up.body # << >>
             THEN [ entry |-> [ ts |-> now, data |-> up.body ], out |-> Served(up.body) ]
             ELSE [ entry |-> entry, out |-> Served(entry.data) ]
      [] up.kind = "timeout" ->
             [ entry |-> entry,
               out |-> IF entry # NoEntry THEN Served(entry.data)
                       ELSE Raised(504, "ESPN API timeout") ]
      [] up.kind = "http_status" ->
             [ entry |-> entry,
               out |-> IF entry # NoEntry THEN Served(entry.data)
                       ELSE Raised(502, "ESPN API error: {status}") ]
      [] up.kind = "request_error" ->
             [ entry |-> entry,
               out |-> IF entry # NoEntry THEN Served(entry.data)
                       ELSE Raised(502, "ESPN API request failed") ]
      [] OTHER ->
             [ entry |-> entry,
               out |-> IF entry # NoEntry THEN Served(entry.data)
                       ELSE Raised(500, "Unexpected error fetching games") ]

\* GamesAreFresh that still answers from the cache at the full TTL.
GamesAreFresh_AtFullAge(entry, now, force_refresh) ==
    ~force_refresh /\ entry # NoEntry /\ (now - entry.ts) <= _GAMES_TTL_SECONDS

\* The test that lets _get_weekly_games answer from the cache.
GamesAreFresh(entry, now, force_refresh) ==
    ~force_refresh /\ entry # NoEntry /\ (now - entry.ts) < _GAMES_TTL_SECONDS

\* _get_live_standings past the fresh-cache test: the try block and its
\* handlers.  cached is _live_cache_data.
FetchLiveStandings(cached, cached_ts, now, up) ==
    CASE up.kind = "object" ->
             [ data |-> Cached(up.body), ts |-> now, out |-> Served(up.body) ]
      [] up.kind = "timeout" ->
             [ data |-> cached, ts |-> cached_ts,
               out |-> IF cached # NoData THEN Served(ListOf(cached))
                       ELSE Raised(504, "Upstream timeout") ]
      [] up.kind = "http_status" ->
             [ data |-> cached, ts |-> cached_ts,
               out |-> IF cached # NoData THEN Served(ListOf(cached))
                       ELSE Raised(502, "Upstream error: {status}") ]
      [] up.kind = "request_error" ->
             [ data |-> cached, ts |-> cached_ts,
               out |-> IF cached # NoData THEN Served(ListOf(cached))
                       ELSE Raised(502, "Upstream request failed") ]
      [] OTHER ->
             [ data |-> cached, ts |-> cached_ts,
               out |-> IF cached # NoData THEN Served(ListOf(cached))
                       ELSE Raised(500, "Unexpected error") ]

\* The test that lets _get_live_standings answer from the cache.
StandingsAreFresh(cached, cached_ts, now, force_refresh) ==
    /\ ~force_refresh
    /\ cached # NoData
    /\ cached_ts # NoTime
    /\ (now - cached_ts) < _LIVE_TTL_SECONDS

\* The live cache as an entry: (_live_cache_ts, _live_cache_data).
LiveEntry(cached, cached_ts) == [ ts |-> cached_ts, data |-> cached ]

\* No fetch has given games for the url.
NoFetch == [ ts |-> -1, done |-> -1, data |-> << >> ]

\* No cached fetcher has been called.
NoReply ==
    [ fn |-> "", url |-> Url(NoParam, NoParam, NoParam), force_refresh |-> FALSE,
      at |-> 0, upstream |-> "none", body |-> << >>,
      was |-> NoFetch, had |-> NoEntry, kept |-> NoEntry,
      raised |-> 0, detail |-> "", data |-> << >> ]

\* The last step of a call and its outcome: the arguments, the time the
\* call read when it began, what the upstream did ("none" when the call
\* returned without contacting it, "sent" when the call has gone to wait
\* for it), the latest fetch that had given games when the call began, the
\* cache entry the step found and the one it left, and what the call
\* returned or raised.
Reply(fn, url, force_refresh, now, up, was, had, kept, out) ==
    [ fn |-> fn, url |-> url, force_refresh |-> force_refresh, at |-> now,
      upstream |-> up.kind, body |-> up.body,
      was |-> was, had |-> had, kept |-> kept,
      raised |-> out.raised, detail |-> out.detail, data |-> out.data ]

NotContacted == [ kind |-> "none", body |-> << >> ]
Sent == [ kind |-> "sent", body |-> << >> ]

\* A call in httpx.get: its arguments and the time it read before the wait.
Call(fn, url, force_refresh) ==
    [ fn |-> fn, url |-> url, force_refresh |-> force_refresh, now |-> clock ]

\* The caches as the module is loaded.
EmptyCaches ==
    /\ clock = 0
    /\ ticks = 0
    /\ _games_cache = [u \in Urls |-> NoEntry]
    /\ _live_cache_ts = NoTime
    /\ _live_cache_data = NoData
    /\ fetched = [u \in Urls |-> NoFetch]
    /\ in_flight = EmptyBag
    /\ reply = NoReply

InitCache == MOCK_ESPN \in BOOLEAN /\ EmptyCaches

\* Time passes, between two calls or while calls wait for the upstream.
ClockAdvancesBy(steps) ==
    /\ ticks < MaxTicks
    /\ ticks' = ticks + 1
    /\ \E d \in steps : clock' = clock + d
    /\ UNCHANGED <<MOCK_ESPN, _games_cache, _live_cache_ts, _live_cache_data,
                   fetched, in_flight, reply>>
    /\ UNCHANGED <<seedingVars, bracketVars, navVars, parserVars, contextVars,
                   adapterVars, threadVars>>

\* By a second, or by a second less than _GAMES_TTL_SECONDS.
GamesClockAdvances == ClockAdvancesBy({1, _GAMES_TTL_SECONDS - 1})

\* The same for both TTLs.
ClockAdvances ==
    ClockAdvancesBy({_GAMES_TTL_SECONDS - 1, _GAMES_TTL_SECONDS,
                     _LIVE_TTL_SECONDS})

\* _get_weekly_games(year, week, season_type, force_refresh) up to
\* httpx.get: the call returns the fixture or the fresh cache entry, or it
\* goes to the upstream with the time it has read.
GetWeeklyGames ==
    /\ \E r \in Requests, force_refresh \in BOOLEAN :
          LET url == Url(r.year, r.week, r.season_type)
              entry == _games_cache[url]
          IN  IF MOCK_ESPN
              THEN /\ reply' = Reply("_get_weekly_games", url, force_refresh,
                                     clock, NotContacted, fetched[url], entry,
                                     entry, Served(FixtureGames))
                   /\ UNCHANGED in_flight
              ELSE IF GamesAreFresh(entry, clock, force_refresh)
              THEN /\ reply' = Reply("_get_weekly_games", url, force_refresh,
                                     clock, NotContacted, fetched[url], entry,
                                     entry, Served(entry.data))
                   /\ UNCHANGED in_flight
              ELSE /\ BagCardinality(in_flight) < MaxThreads
                   /\ in_flight' = in_flight (+) SetToBag(
                          {Call("_get_weekly_games", url, force_refresh)})
                   /\ reply' = Reply("_get_weekly_games", url, force_refresh,
                                     clock, Sent, fetched[url], entry, entry,
                                     Served(<< >>))
    /\ UNCHANGED <<MOCK_ESPN, clock, ticks, _games_cache, _live_cache_ts,
                   _live_cache_data, fetched>>
    /\ UNCHANGED <<seedingVars, bracketVars, navVars, parserVars, contextVars,
                   adapterVars, threadVars>>

\* _get_weekly_games from the end of httpx.get: the try block and its
\* handlers, on the cache as it is by then and with the time read before
\* the wait.
WeeklyGamesReturn ==
    /\ \E c \in BagToSet(in_flight), up \in Upstream(GameLists) :
          /\ c.fn = "_get_weekly_games"
          /\ LET entry == _games_cache[c.url]
                 done == FetchWeeklyGames(entry, c.now, up)
             IN  /\ in_flight' = in_flight (-) SetToBag({c})
                 /\ reply' = Reply(c.fn, c.url, c.force_refresh, c.now, up,
                                   NoFetch, entry, done.entry, done.out)
                 /\ _games_cache' = [_games_cache EXCEPT ![c.url] = done.entry]
                 /\ fetched' = IF up.kind = "object" /\ up.body # << >>
                               THEN [fetched EXCEPT
                                         ![c.url] = [ ts |-> c.now, done |-> clock,
                                                      data |-> up.body ]]
                               ELSE fetched
    /\ UNCHANGED <<MOCK_ESPN, clock, ticks, _live_cache_ts, _live_cache_data>>
    /\ UNCHANGED <<seedingVars, bracketVars, navVars, parserVars, contextVars,
                   adapterVars, threadVars>>

\* _get_live_standings(force_refresh) up to httpx.get.
GetLiveStandings ==
    /\ \E force_refresh \in BOOLEAN :
          LET url == Url(NoParam, NoParam, NoParam)
              entry == LiveEntry(_live_cache_data, _live_cache_ts)
          IN  IF MOCK_ESPN
              THEN /\ reply' = Reply("_get_live_standings", url, force_refresh,
                                     clock, NotContacted, NoFetch, entry, entry,
                                     Served(FixtureStandings))
                   /\ UNCHANGED in_flight
              ELSE IF StandingsAreFresh(_live_cache_data, _live_cache_ts, clock,
                                        force_refresh)
              THEN /\ reply' = Reply("_get_live_standings", url, force_refresh,
                                     clock, NotContacted, NoFetch, entry, entry,
                                     Served(ListOf(_live_cache_data)))
                   /\ UNCHANGED in_flight
              ELSE /\ BagCardinality(in_flight) < MaxThreads
                   /\ in_flight' = in_flight (+) SetToBag(
                          {Call("_get_live_standings", url, force_refresh)})
                   /\ reply' = Reply("_get_live_standings", url, force_refresh,
                                     clock, Sent, NoFetch, entry, entry,
                                     Served(<< >>))
    /\ UNCHANGED <<MOCK_ESPN, clock, ticks, _games_cache, _live_cache_ts,
                   _live_cache_data, fetched>>
    /\ UNCHANGED <<seedingVars, bracketVars, navVars, parserVars, contextVars,
                   adapterVars, threadVars>>

\* _get_live_standings from the end of httpx.get.
LiveStandingsReturn ==
    /\ \E c \in BagToSet(in_flight), up \in Upstream(StandingsLists) :
          /\ c.fn = "_get_live_standings"
          /\ LET entry == LiveEntry(_live_cache_data, _live_cache_ts)
                 done == FetchLiveStandings(_live_cache_data, _live_cache_ts,
                                            c.now, up)
             IN  /\ in_flight' = in_flight (-) SetToBag({c})
                 /\ reply' = Reply(c.fn, c.url, c.force_refresh, c.now, up,
                                   NoFetch, entry, LiveEntry(done.data, done.ts),
                                   done.out)
                 /\ _live_cache_data' = done.data
                 /\ _live_cache_ts' = done.ts
    /\ UNCHANGED <<MOCK_ESPN, clock, ticks, _games_cache, fetched>>
    /\ UNCHANGED <<seedingVars, bracketVars, navVars, parserVars, contextVars,
                   adapterVars, threadVars>>

(***************************************************************************)
(* _extract_weekly_context and GET /games/weekly/context                   *)
(***************************************************************************)
\* The values resp.json() gives for a field of the upstream: None, a bool,
\* an int, a float (m * 10^e, or inf or nan, which the parser takes from
\* Infinity and NaN), a str, given by the code points of its characters, a
\* list, a dict.
Null == [ is |-> "null" ]
Bool(b) == [ is |-> "bool", n |-> IF b THEN 1 ELSE 0 ]
Number(n) == [ is |-> "int", n |-> n ]
Float(m, e) == [ is |-> "float", m |-> m, e |-> e ]
Infinity == [ is |-> "inf" ]
NaN == [ is |-> "nan" ]
String(chars) == [ is |-> "str", chars |-> chars ]
List == [ is |-> "list" ]
Dict == [ is |-> "dict" ]

\* What a conversion gives: the exception it raises, if any, or its value.
Converted(v) == [ raised |-> "", value |-> v ]
Fails(exception) == [ raised |-> exception, value |-> Null ]

\* The characters of ASCII from the space to the underscore, in their
\* order, and its small letters.
Ascii ==
    << " ", "!", "\"", "#", "$", "%", "&", "'", "(", ")", "*", "+", ",",
       "-", ".", "/", "0", "1", "2", "3", "4", "5", "6", "7", "8", "9",
       ":", ";", "<", "=", ">", "?", "@", "A", "B", "C", "D", "E", "F",
       "G", "H", "I", "J", "K", "L", "M", "N", "O", "P", "Q", "R", "S",
       "T", "U", "V", "W", "X", "Y", "Z", "[", "\\", "]", "^", "_" >>
SmallLetters ==
    << "a", "b", "c", "d", "e", "f", "g", "h", "i", "j", "k", "l", "m",
       "n", "o", "p", "q", "r", "s", "t", "u", "v", "w", "x", "y", "z" >>

\* ord(c) of a character of ASCII.
ord(c) ==
    CASE c = "\t" -> 9
      [] c = "\n" -> 10
      [] c = "\f" -> 12
      [] c = "\r" -> 13
      [] \E k \in 1..Len(SmallLetters) : SmallLetters[k] = c ->
             96 + CHOOSE k \in 1..Len(SmallLetters) : SmallLetters[k] = c
      [] OTHER -> 31 + CHOOSE k \in 1..Len(Ascii) : Ascii[k] = c

\* The code points of the characters cs.
Chars(cs) == [k \in 1..Len(cs) |-> ord(cs[k])]

\* The characters int() and float() take off both ends of a str: the white
\* space of ASCII, U+0085, U+00A0 and the spaces of Unicode.
WhiteSpace ==
    {9, 10, 11, 12, 13, 32, 133, 160, 5760} \cup (8192..8202)
        \cup {8232, 8233, 8239, 8287, 12288}

\* The digits zero of Unicode (category Nd); the nine characters after each
\* are its digits 1 to 9.  int() and float() read every one of them.
DecimalZeros ==
    {48, 1632, 1776, 1984, 2406, 2534, 2662, 2790, 2918, 3046, 3174, 3302,
     3430, 3558, 3664, 3792, 3872, 4160, 4240, 6112, 6160, 6470, 6608,
     6784, 6800, 6992, 7088, 7232, 7248, 42528, 43216, 43264, 43472, 43504,
     43600, 44016, 65296, 66720, 68912, 69734, 69872, 69942, 70096, 70384,
     70736, 70864, 71248, 71360, 71472, 71904, 72016, 72784, 73040, 73120,
     92768, 92864, 93008, 120782, 120792, 120802, 120812, 120822, 123200,
     123632, 125264, 130032}
IsDigit(c) == \E z \in DecimalZeros : c >= z /\ c <= z + 9
DigitValue(c) == c - (CHOOSE z \in DecimalZeros : c >= z /\ c <= z + 9)

\* The letters of ASCII in lower case, as float() compares them.
Lower(c) == IF c >= ord("A") /\ c <= ord("Z") THEN c + 32 ELSE c

RECURSIVE LStrip(_)
LStrip(s) == IF s # << >> /\ Head(s) \in WhiteSpace THEN LStrip(Tail(s)) ELSE s
RECURSIVE RStrip(_)
RStrip(s) ==
    IF s # << >> /\ s[Len(s)] \in WhiteSpace
    THEN RStrip(SubSeq(s, 1, Len(s) - 1)) ELSE s
Strip(s) == RStrip(LStrip(s))

HasSign(s) == s # << >> /\ Head(s) \in {ord("+"), ord("-")}
Unsigned(s) == IF HasSign(s) THEN Tail(s) ELSE s
Signed(s, n) == IF s # << >> /\ Head(s) = ord("-") THEN -n ELSE n

\* digit (["_"] digit)*
IsDigitPart(s) ==
    /\ s # << >>
    /\ IsDigit(s[1]) /\ IsDigit(s[Len(s)])
    /\ \A k \in 1..Len(s) : IsDigit(s[k]) \/ s[k] = ord("_")
    /\ \A k \in 1..(Len(s) - 1) : ~(s[k] = ord("_") /\ s[k + 1] = ord("_"))

RECURSIVE DigitsValue(_, _)
\* The number the digits of s write after those that gave n.
DigitsValue(n, s) ==
    IF s = << >> THEN n
    ELSE DigitsValue(IF Head(s) = ord("_") THEN n
                     ELSE 10 * n + DigitValue(Head(s)),
                     Tail(s))

RECURSIVE Pow10(_)
Pow10(k) == IF k = 0 THEN 1 ELSE 10 * Pow10(k - 1)
RECURSIVE NumDigits(_)
NumDigits(n) == IF n < 10 THEN 1 ELSE 1 + NumDigits(n \div 10)
Abs(n) == IF n < 0 THEN -n ELSE n

\* int(s) of a str: white space around, a sign, digits in base 10.
IntOfText(s) ==
    LET body == Unsigned(Strip(s))
    IN  IF IsDigitPart(body)
        THEN Converted(Number(Signed(Strip(s), DigitsValue(0, body))))
        ELSE Fails("ValueError")

\* The index of the first of the characters cs in s, 0 when there is none.
IndexOfChar(s, cs) ==
    IF \E k \in 1..Len(s) : s[k] \in cs
    THEN CHOOSE k \in 1..Len(s) :
             s[k] \in cs /\ \A j \in 1..(k - 1) : s[j] \notin cs
    ELSE 0

\* The numeral m * 10^e gives inf when it is not below 2^1024 - 2^970, the
\* middle between the largest float and 2^1024: a number of 309 digits
\* that begins with 1797693134 and goes on with 8623158.  m, of at most ten
\* digits, is compared with as many digits of it.
Overflows(m, e) ==
    /\ m # 0
    /\ \/ NumDigits(m) + e > 309
       \/ /\ NumDigits(m) + e = 309
          /\ m > 1797693134 \div Pow10(10 - NumDigits(m))

\* The float of the numeral m * 10^e with the sign of t.
FloatOfParts(t, m, e) ==
    IF Overflows(m, e) THEN Converted(Infinity)
    ELSE Converted(Float(Signed(t, m), e))

\* The digits before and after the point and the exponent are well formed.
WellFormed(whole, fraction, exponent, has_point, has_e) ==
    /\ IF has_point
       THEN /\ whole = << >> \/ IsDigitPart(whole)
            /\ fraction = << >> \/ IsDigitPart(fraction)
            /\ whole # << >> \/ fraction # << >>
       ELSE IsDigitPart(whole)
    /\ has_e => IsDigitPart(Unsigned(exponent))

\* The float of the digits before and after the point and the exponent.
FloatOfNumeral(t, whole, fraction, exponent, well_formed) ==
    IF ~well_formed THEN Fails("ValueError")
    ELSE FloatOfParts(t, DigitsValue(DigitsValue(0, whole), fraction),
                      Signed(exponent, DigitsValue(0, Unsigned(exponent)))
                          - Len(SelectSeq(fraction, IsDigit)))

\* The float of a mantissa split at its point, if it has one.
FloatOfPointed(t, whole, fraction, exponent, has_point, has_e) ==
    FloatOfNumeral(t, whole, fraction, exponent,
                   WellFormed(whole, fraction, exponent, has_point, has_e))

\* The float of a mantissa with its point at at_point, 0 when it has none.
FloatOfMantissa(t, mantissa, exponent, has_e, at_point) ==
    IF at_point = 0
    THEN FloatOfPointed(t, mantissa, << >>, exponent, FALSE, has_e)
    ELSE FloatOfPointed(t, SubSeq(mantissa, 1, at_point - 1),
                        SubSeq(mantissa, at_point + 1, Len(mantissa)),
                        exponent, TRUE, has_e)

\* The float of a mantissa and an exponent.
FloatOfExponent(t, mantissa, exponent, has_e) ==
    FloatOfMantissa(t, mantissa, exponent, has_e,
                    IndexOfChar(mantissa, {ord(".")}))

\* The float of the characters body, in lower case and without the sign,
\* with the first e at at_e, 0 when there is none.
FloatOfBody(t, body, at_e) ==
    IF body \in {Chars(<< "i", "n", "f" >>),
                 Chars(<< "i", "n", "f", "i", "n", "i", "t", "y" >>)}
    THEN Converted(Infinity)
    ELSE IF body = Chars(<< "n", "a", "n" >>) THEN Converted(NaN)
    ELSE IF at_e = 0 THEN FloatOfExponent(t, body, << >>, FALSE)
    ELSE FloatOfExponent(t, SubSeq(body, 1, at_e - 1),
                         SubSeq(body, at_e + 1, Len(body)), TRUE)

\* The characters of s with the letters of ASCII in lower case.
LowerOf(s) == [k \in 1..Len(s) |-> Lower(s[k])]
FloatOfLower(t, body) == FloatOfBody(t, body, IndexOfChar(body, {ord("e")}))
FloatOfStripped(t) == FloatOfLower(t, LowerOf(Unsigned(t)))

\* float(s) of a str: white space around, a sign, then inf, infinity or
\* nan in any case, or digits with a point and an exponent.
FloatOfText(s) == FloatOfStripped(Strip(s))

\* int(x) of a float m * 10^e: the digits after the point are dropped.  The
\* numerals of the model and the numbers they give have at most ten digits
\* and are below 2^31; in this range float() loses none of the digits.
Truncated(m, e) ==
    IF m = 0 THEN 0
    ELSE IF e >= 0 THEN m * Pow10(e)
    ELSE IF -e >= NumDigits(Abs(m)) THEN 0
    ELSE IF m >= 0 THEN m \div Pow10(-e)
    ELSE -((-m) \div Pow10(-e))

\* float(v)
FloatOf(v) ==
    CASE v.is \in {"null", "list", "dict"} -> Fails("TypeError")
      [] v.is \in {"bool", "int"} -> Converted(Float(v.n, 0))
      [] v.is = "str" -> FloatOfText(v.chars)
      [] OTHER -> Converted(v)

\* int(v)
IntOf(v) ==
    CASE v.is \in {"null", "list", "dict"} -> Fails("TypeError")
      [] v.is \in {"bool", "int"} -> Converted(Number(v.n))
      [] v.is = "float" -> Converted(Number(Truncated(v.m, v.e)))
      [] v.is = "inf" -> Fails("OverflowError")
      [] v.is = "nan" -> Fails("ValueError")
      [] OTHER -> IntOfText(v.chars)

\* int(v) if v is not None else default
IntOr(v, default) == IF v = Null THEN Converted(Number(default)) ELSE IntOf(v)

WeeklyContext(year, week, seasonType) ==
    [ year |-> year, week |-> week, seasonType |-> seasonType ]
NoContext == WeeklyContext(0, 0, 0)

Context(c) == [ raised |-> 0, detail |-> "", context |-> c ]
ContextRaised(status_code, detail) ==
    [ raised |-> status_code, detail |-> detail, context |-> NoContext ]

\* year, s_type and week are season.year, season.type and week.number of
\* the payload.  The three conversions are made in this order and the first
\* exception ends the try block; the handler turns a ValueError and a
\* TypeError into the 502 and lets any other exception through.
_extract_weekly_context(year, s_type, week) ==
    LET y == IntOr(year, 2025)
        t == IntOr(s_type, 2)
        w == IntOr(week, 1)
        exception == IF y.raised # "" THEN y.raised
                     ELSE IF t.raised # "" THEN t.raised
                     ELSE w.raised
    IN  IF exception \in {"ValueError", "TypeError"}
        THEN ContextRaised(502, "Invalid upstream context")
        ELSE IF exception # "" THEN ContextRaised(-1, exception)
        ELSE Context(WeeklyContext(
                 IF y.value.n < 1970 \/ y.value.n > 2030 THEN 2025 ELSE y.value.n,
                 IF w.value.n < 1 \/ w.value.n > 25 THEN 1 ELSE w.value.n,
                 IF t.value.n \notin {1, 2, 3} THEN 2 ELSE t.value.n))

\* The try block of get_weekly_context.
TryWeeklyContext(up) ==
    CASE up.kind = "object" -> _extract_weekly_context(up.year, up.s_type, up.week)
      [] up.kind = "not_object" -> ContextRaised(502, "Unexpected upstream format")
      [] up.kind = "timeout" -> ContextRaised(-1, "httpx.TimeoutException")
      [] up.kind = "http_status" -> ContextRaised(-1, "httpx.HTTPStatusError")
      [] up.kind = "request_error" -> ContextRaised(-1, "httpx.RequestError")
      [] OTHER -> ContextRaised(-1, "ValueError")

\* The except clauses of get_weekly_context, in their order; the last one
\* catches every exception raised in the try block, HTTPException included.
get_weekly_context(up) ==
    LET tried == TryWeeklyContext(up)
    IN  IF tried.raised = 0 THEN tried
        ELSE IF tried.detail = "httpx.TimeoutException"
        THEN ContextRaised(504, "ESPN API timeout")
        ELSE IF tried.detail = "httpx.HTTPStatusError"
        THEN ContextRaised(502, "ESPN API error: {status}")
        ELSE IF tried.detail = "httpx.RequestError"
        THEN ContextRaised(502, "ESPN API request failed")
        ELSE ContextRaised(500, "Unexpected error fetching context")

\* The context of the fixture in mock mode, here the defaults of the
\* handler.
FixtureContext == WeeklyContext(2024, 1, 2)

\* What the upstream gives as the year, the type and the week number.  Of
\* the strings given by code points, the first begins with U+000B, the
\* second with U+00A0, and the third is the Arabic-Indic digit seven and
\* U+2003.
YearValues ==
    {Null, Number(2024), Number(1969), List, Infinity,
     String(Chars(<< "2", "0", "2", "3" >>)),
     String(Chars(<< "2", "_", "0", "2", "4" >>)),
     String(Chars(<< "a", "b", "c" >>)),
     String(<< 11, 50, 48, 50, 52 >>)}
TypeValues ==
    {Null, Number(3), Number(9), Bool(TRUE), String(Chars(<< "+", "3" >>)),
     String(Chars(<< "3", ".", "0" >>)), String(<< 160, 51 >>)}
WeekValues ==
    {Null, Number(5), Number(26), Float(55, -1), NaN, String(<< >>),
     String(Chars(<< " ", "7", " " >>)), String(Chars(<< "7", "\n" >>)),
     String(<< 1639, 8195 >>)}

ContextUpstream ==
    {[ kind |-> k, year |-> Null, s_type |-> Null, week |-> Null ] : k \in Failures}
        \cup {[ kind |-> "object", year |-> y, s_type |-> t, week |-> w ] :
                  y \in YearValues, t \in TypeValues, w \in WeekValues}

NoContextReply ==
    [ upstream |-> [ kind |-> "none", year |-> Null, s_type |-> Null, week |-> Null ],
      raised |-> 0, detail |-> "", context |-> NoContext ]

InitContext == context_reply = NoContextReply

\* GET /games/weekly/context
GetWeeklyContext ==
    /\ IF MOCK_ESPN
       THEN context_reply' = [ upstream |-> NoContextReply.upstream,
                               raised |-> 0, detail |-> "",
                               context |-> FixtureContext ]
       ELSE \E up \in ContextUpstream :
               LET out == get_weekly_context(up)
               IN  context_reply' = [ upstream |-> up, raised |-> out.raised,
                                      detail |-> out.detail, context |-> out.context ]
    /\ UNCHANGED <<seedingVars, bracketVars, navVars, parserVars, cacheVars,
                   adapterVars, threadVars>>

(***************************************************************************)
(* _extract_minimal_standings and the picture of what it returns.          *)
(***************************************************************************)
\* A key of a group that is missing, null or empty.
NoName == ""
\* Python's None as the division of an entry.
NoDivision == "None"

\* g.get("name") or g.get("abbreviation") or g.get("shortName") or None
division_name(g) ==
    IF g.name # NoName THEN g.name
    ELSE IF g.abbreviation # NoName THEN g.abbreviation
    ELSE IF g.shortName # NoName THEN g.shortName
    ELSE NoDivision

\* Python's None as e.get("team", {}).get("displayName").
NoTeam == "None"

\* int(f) of what float(v) gave.
IntOfConverted(f) == IF f.raised # "" THEN f ELSE IntOf(f.value)

\* int(float(v))
IntOfFloat(v) == IntOfConverted(FloatOf(v))

\* What the function has made when it ends: the exception that leaves it,
\* if any, or the list.
Built(list) == [ raised |-> "", list |-> list ]
Unbuilt(exception) == [ raised |-> exception, list |-> << >> ]

\* The first exception of the two conversions of an entry, wins first.
FirstRaised(wins, losses) ==
    IF wins.raised # "" THEN wins.raised ELSE losses.raised

\* One turn of the loop of add_entries on the entry e, wins, losses and
\* ties being what int(float(...)) makes of its fields and exception the
\* first that wins and losses raise.  An entry without a team, wins or
\* losses is passed over, and so is one whose wins or losses raise a
\* ValueError or a TypeError; ties that raise one of them count as 0; any
\* other exception leaves the function.
add_entry(result, e, name, wins, losses, ties, exception) ==
    IF e.team = NoTeam \/ e.wins = Null \/ e.losses = Null
    THEN Built(result)
    ELSE IF exception \in {"ValueError", "TypeError"} THEN Built(result)
    ELSE IF exception # "" THEN Unbuilt(exception)
    ELSE IF e.ties = Null THEN
        Built(Append(result, [ team |-> e.team, wins |-> wins.value.n,
                               losses |-> losses.value.n, ties |-> 0,
                               division |-> name ]))
    ELSE IF ties.raised \in {"ValueError", "TypeError"} THEN
        Built(Append(result, [ team |-> e.team, wins |-> wins.value.n,
                               losses |-> losses.value.n, ties |-> 0,
                               division |-> name ]))
    ELSE IF ties.raised # "" THEN Unbuilt(ties.raised)
    ELSE Built(Append(result, [ team |-> e.team, wins |-> wins.value.n,
                                losses |-> losses.value.n,
                                ties |-> ties.value.n, division |-> name ]))

\* add_entry on the conversions of the fields of e.
AddEntry(result, e, name, wins, losses) ==
    add_entry(result, e, name, wins, losses, IntOfFloat(e.ties),
              FirstRaised(wins, losses))

RECURSIVE add_entries(_, _, _)
\* add_entries of _extract_minimal_standings, appending to result.
add_entries(result, entries, name) ==
    IF entries = << >> THEN Built(result)
    ELSE LET added == AddEntry(result, Head(entries), name,
                               IntOfFloat(Head(entries).wins),
                               IntOfFloat(Head(entries).losses))
         IN  IF added.raised # "" THEN added
             ELSE add_entries(added.list, Tail(entries), name)

RECURSIVE _extract_minimal_standings(_, _)
\* The loop over the subgroups, result being the list built so far.
_extract_minimal_standings(result, groups) ==
    IF groups = << >> THEN Built(result)
    ELSE LET added == add_entries(result, Head(groups).entries,
                                  division_name(Head(groups)))
         IN  IF added.raised # "" THEN added
             ELSE _extract_minimal_standings(added.list, Tail(groups))

\* division.startswith("AFC") on the division of some entry raises
\* AttributeError: team.get("division", "") is None when the key is there
\* with the value None.
StartsWithRaises(entries) ==
    \E k \in 1..Len(entries) : entries[k].division = NoDivision

\* What the upstream gives as the wins of an entry: numbers, and strings
\* that float() reads or rejects.  Of the strings given by code points, the
\* first is U+000B and 7, the second 1.5E1 in Arabic-Indic digits.
WinsValues ==
    {Number(9), Float(85, -1), List,
     String(Chars(<< "8" >>)), String(Chars(<< "8", ".", "5" >>)),
     String(Chars(<< "1", "e", "1" >>)), String(Chars(<< "-", "1" >>)),
     String(Chars(<< " ", "7", " " >>)), String(<< 11, 55 >>),
     String(<< 1633, 46, 1637, 69, 1633 >>),
     String(Chars(<< "a", "b", "c" >>)), String(Chars(<< "i", "n", "f" >>)),
     String(Chars(<< "1", "e", "9", "9", "9" >>)),
     String(Chars(<< "1", ".", "7", "9", "7", "7", "e", "3", "0", "8" >>))}
TiesValues ==
    {Number(1), String(Chars(<< "x" >>)), String(Chars(<< "I", "n", "f" >>))}

\* The entries of the k-th group: one entry that differs from a plain one
\* in its wins, its losses, its ties or its team.
UpstreamEntries(k) ==
    LET plain == [ team |-> SlotOf(k, TeamNames), wins |-> Number(9),
                   losses |-> Number(8), ties |-> Null ]
    IN  {[plain EXCEPT !.wins = w] : w \in WinsValues \cup {Null}}
            \cup {[plain EXCEPT !.losses = String(Chars(<< "n", "a", "n" >>))]}
            \cup {[plain EXCEPT !.ties = t] : t \in TiesValues}
            \cup {[plain EXCEPT !.team = n] : n \in {"", NoTeam}}

\* name, abbreviation and shortName of a group: each of them missing or
\* not.
GroupNames ==
    {[ name |-> n, abbreviation |-> a, shortName |-> sn ] :
         n \in {NoName, "AFC East"}, a \in {NoName, "AFC West"},
         sn \in {NoName, "AFC South"}}
        \cup {[ name |-> "NFC North", abbreviation |-> NoName, shortName |-> NoName ]}

UpstreamGroups(k) ==
    {[ name |-> g.name, abbreviation |-> g.abbreviation, shortName |-> g.shortName,
       entries |-> << e >> ] : g \in GroupNames, e \in UpstreamEntries(k)}

InitAdapter == upstream_groups = << >>

\* The upstream standings gain a division group.
UpstreamAddsGroup ==
    /\ calls = 0
    /\ Len(upstream_groups) < MaxGroups
    /\ \E g \in UpstreamGroups(Len(upstream_groups) + 1) :
          upstream_groups' = Append(upstream_groups, g)
    /\ UNCHANGED <<seedingVars, bracketVars, navVars, parserVars, cacheVars,
                   contextVars, threadVars>>

(***************************************************************************)
(* GET /playoffs/picture in the regular season.  _get_playoff_picture      *)
(* calls _get_live_standings(), which returns the fixture, or the fresh    *)
(* cache, or waits in httpx.get for the upstream and, when the wait is     *)
(* over, stores the list made of the answer; the picture is computed from  *)
(* the list returned.  Requests are served on the threads of a pool: while *)
(* one waits, others arrive and return, and the feed changes.              *)
(***************************************************************************)
\* A request in httpx.get: the time it read before the wait, and, once the
\* upstream has composed its answer, the list _extract_minimal_standings
\* makes of the answer or the exception that leaves it.
Waiting(now) == [ now |-> now, answer |-> NoData, raises |-> "" ]

\* The upstream answers with an object of which _extract_minimal_standings
\* makes the list.
Answers(list) == [ kind |-> "object", body |-> list ]

\* What the wait of a request ends with: an exception of httpx.get, of
\* raise_for_status or of resp.json(), a JSON value that is not an object,
\* or the answer composed for the request.
Outcomes(r, failures) ==
    {[ kind |-> k, body |-> << >> ] : k \in failures}
        \cup (IF r.answer = NoData THEN {}
              ELSE IF r.raises # "" THEN {[ kind |-> r.raises, body |-> << >> ]}
              ELSE {Answers(ListOf(r.answer))})

\* The exception that leaves the handler when division.startswith raises.
AttributeError == Raised(500, "AttributeError")

\* _get_playoff_picture past _get_live_standings: the response to a
\* request, given what _get_live_standings returned or raised.
Respond(out) ==
    /\ calls' = calls + 1
    /\ previous' = picture
    /\ served_before' = served
    /\ IF out.raised # 0
       THEN picture' = out /\ served' = NoData
       ELSE /\ served' = Cached(out.data)
            /\ picture' = IF StartsWithRaises(out.data) THEN AttributeError
                          ELSE RegularPicture(out.data)

\* A request arrives.  standings is what the feed serves: the fixture when
\* the process runs on fixtures, the list made of the upstream's answer
\* otherwise.
GetPlayoffPicture ==
    /\ calls + BagCardinality(waiting) < MaxCalls
    /\ IF MOCK_ESPN
       THEN Respond(Served(standings)) /\ UNCHANGED waiting
       ELSE IF StandingsAreFresh(_live_cache_data, _live_cache_ts, clock, FALSE)
       THEN Respond(Served(ListOf(_live_cache_data))) /\ UNCHANGED waiting
       ELSE /\ waiting' = waiting (+) SetToBag({Waiting(clock)})
            /\ UNCHANGED <<calls, picture, previous, served, served_before>>
    /\ UNCHANGED <<phase, layout, standings, reordered>>
    /\ UNCHANGED <<bracketVars, navVars, parserVars, serviceVars>>

\* The only request for the standings the feed serves.
GetPlayoffPictureOnce ==
    calls = 0 /\ waiting = EmptyBag /\ GetPlayoffPicture

\* The answer the upstream has composed for the request r.
AnsweredWith(r, list) ==
    (waiting (-) SetToBag({r})) (+) SetToBag({[r EXCEPT !.answer = Cached(list)]})

\* The upstream composes its answer to a request from the standings it
\* has; the answer is then on its way.
UpstreamAnswers ==
    /\ \E r \in BagToSet(waiting) :
          /\ r.answer = NoData
          /\ waiting' = AnsweredWith(r, standings)
    /\ UNCHANGED <<phase, layout, standings, calls, reordered, picture, previous,
                   served, served_before>>
    /\ UNCHANGED <<bracketVars, navVars, parserVars, serviceVars>>

\* The same of an upstream that answers with its division groups.
UpstreamAnswersGroups ==
    /\ \E r \in BagToSet(waiting) :
          /\ r.answer = NoData
          /\ LET built == _extract_minimal_standings(<< >>, upstream_groups)
             IN  waiting' = (waiting (-) SetToBag({r})) (+) SetToBag(
                     {[r EXCEPT !.answer = Cached(built.list),
                                !.raises = built.raised]})
    /\ UNCHANGED <<phase, layout, standings, calls, reordered, picture, previous,
                   served, served_before>>
    /\ UNCHANGED <<bracketVars, navVars, parserVars, serviceVars>>

\* The wait of a request is over: _get_live_standings from the end of
\* httpx.get, on the cache as it is by then and with the time read before
\* the wait, and the response.  failures are the ways the upstream fails.
PictureReturnsOr(failures) ==
    /\ \E r \in BagToSet(waiting) :
          \E up \in Outcomes(r, failures) :
              LET got == FetchLiveStandings(_live_cache_data, _live_cache_ts,
                                            r.now, up)
              IN  /\ waiting' = waiting (-) SetToBag({r})
                  /\ _live_cache_data' = got.data
                  /\ _live_cache_ts' = got.ts
                  /\ Respond(got.out)
    /\ UNCHANGED <<phase, layout, standings, reordered>>
    /\ UNCHANGED <<MOCK_ESPN, clock, ticks, _games_cache, fetched, in_flight,
                   reply>>
    /\ UNCHANGED <<bracketVars, navVars, parserVars, contextVars, adapterVars,
                   threadVars>>

\* With an upstream that fails in every way.
PictureReturns == PictureReturnsOr(Failures)

\* With an upstream whose only failure is not to answer in time.
PictureReturnsOrTimesOut == PictureReturnsOr({"timeout"})

(***************************************************************************)
(* GET /playoffs/picture served at once.  FastAPI runs the handler, a      *)
(* plain function, on the threads of a pool.  Lists and dicts are objects: *)
(* a variable or an item of a list holds the identity of one, and a write  *)
(* through one holder is seen through every other.  _get_live_standings    *)
(* hands the list object it has cached to every request that finds the     *)
(* cache fresh, and to every request whose fetch fails.                    *)
(***************************************************************************)
Threads == 1..MaxThreads

\* The identity of an object: the request whose thread made it, the line of
\* main.py that made it, and which of the objects the request made on that
\* line it is.
Object(t, line, k) == << t, line, k >>
NoObject == Object(0, 0, 0)

\* No object has been made.
NoObjects == << >>

\* team_status that is the entry itself, with the keys of the status added.
team_status_OfEntry(t, k, team) == team

\* team_status = {...}: the k-th dict literal evaluated by the request t,
\* a new object whatever `team`, the entry it is made of, is.
team_status(t, k, team) == Object(t, 795, k)

\* NewTeamList of lists made once, when the module is loaded.
NewTeamList_OfModule(t, line) == Object(0, line, 0)

\* afc_teams = [] on line 782 and nfc_teams = [] on line 783: a list of the
\* call.
NewTeamList(t, line) == Object(t, line, 0)

\* The lists a call appends to.
afc_teams(t) == NewTeamList(t, 782)
nfc_teams(t) == NewTeamList(t, 783)

\* A list of dicts made by the request t: the list, made on `line`, and
\* its dicts, made on dict_line.
ListObjects(t, line, dict_line, content) ==
    (Object(t, line, 0) :> [k \in 1..Len(content) |-> Object(t, dict_line, k)])
        @@ [id \in {Object(t, dict_line, k) : k \in 1..Len(content)} |->
               content[id[3]]]

\* The dicts of a list of dicts, in list order.
Dicts(h, list) == [k \in 1..Len(h[list]) |-> h[h[list][k]]]

\* A request not yet made: what it asks for, where its thread is, the time
\* it read before httpx.get, the object handed to the engine or the tracker
\* and what the object held then, the passes of the loop over it, the
\* super_bowl_teams and the dicts the tracker has made, whether another call
\* ran meanwhile, the requests answered before this one came, and the
\* response.
NoThread ==
    [ job |-> "", pc |-> "idle", now |-> 0, input |-> NoObject,
      handed |-> << >>, i |-> 0, super_bowl_teams |-> << >>, seen |-> << >>,
      overlapped |-> FALSE, after |-> {}, result |-> NoPicture ]

\* The standings and the bracket of the v-th of the feeds the requests are
\* served from.
ThreadRecords == << << 9, 8, 0 >>, << 8, 9, 0 >>, << 7, 7, 1 >>, << 9, 8, 0 >> >>
ThreadStandings(v) ==
    [k \in 1..MaxTeams |-> Entry(k, SlotOf(k + v, ThreadRecords))]
ThreadSeeds(v) == << SeedEntry(AfcSeedTeam, v = 1) >>
ThreadGames(v) ==
    << IF v = 2
       THEN Game(<< "Super Bowl", "Super Bowl" >>,
                 << "Detroit Lions", "Kansas City Chiefs" >>, "upcoming", NoWinner)
       ELSE Game(<< "Divisional", "AFC" >>,
                 << "Kansas City Chiefs", "Buffalo Bills" >>, "final",
                 "Buffalo Bills") >>

\* The upstream holds the standings, or the fixtures hold them and the
\* bracket; no request has been made.
InitThreads ==
    /\ phase = "closing" /\ layout = 1
    /\ calls = 0 /\ reordered = FALSE /\ waiting = EmptyBag
    /\ picture = NoPicture /\ previous = NoPicture
    /\ served = NoData /\ served_before = NoData
    /\ MOCK_ESPN \in BOOLEAN /\ EmptyCaches
    /\ bracket_picture = NoPicture
    /\ \E v \in 0..2 :
          /\ standings = ThreadStandings(v)
          /\ IF MOCK_ESPN
             THEN /\ afc_seeds = ThreadSeeds(v)
                  /\ nfc_seeds = << SeedEntry(NfcSeedTeam, FALSE) >>
                  /\ games = ThreadGames(v)
             ELSE afc_seeds = << >> /\ nfc_seeds = << >> /\ games = << >>
    /\ heap = NoObjects
    /\ threads = [t \in Threads |-> NoThread]

\* The thread is in the engine or in the tracker.
InCall(t) == threads[t].pc = "loop"

\* Another request is in the engine or in the tracker.
Overlaps(t) == \E u \in Threads \ {t} : InCall(u)

\* The requests answered so far.
AnsweredSoFar == {u \in Threads : threads[u].pc = "done"}

\* No request is being served.
NoneInService == \A u \in Threads : threads[u].pc \in {"idle", "done"}

\* The handler has the object `input` from _get_live_standings or from
\* _get_playoff_bracket and calls the engine or the tracker with it.  The
\* engine begins by binding afc_teams and nfc_teams to empty lists, the
\* tracker by reading the Super Bowl teams off the games (lines 1004-1010);
\* h is the heap with the objects made so far.
Called(h, t, job, input) ==
    /\ heap' = IF job = "standings"
               THEN h @@ (afc_teams(t) :> << >>) @@ (nfc_teams(t) :> << >>)
               ELSE h
    /\ threads' = [threads EXCEPT
           ![t].job = job,
           ![t].pc = "loop",
           ![t].input = input,
           ![t].handed = IF job = "standings" THEN Dicts(h, input) ELSE h[input],
           ![t].super_bowl_teams = IF job = "standings" THEN << >>
                                   ELSE SuperBowlTeams(h[input].games),
           ![t].after = IF threads[t].pc = "idle" THEN AnsweredSoFar ELSE @,
           ![t].overlapped = Overlaps(t)]

\* The request ends with an HTTPException or with the exception of the
\* engine.
ThreadFails(t, job, exception) ==
    threads' = [threads EXCEPT
        ![t].job = job, ![t].pc = "done", ![t].result = exception]

\* GET /playoffs/picture arrives and is given a thread: _get_playoff_picture
\* up to the call of the tracker or of the engine, or up to httpx.get.
\* _get_playoff_bracket returns what json.loads makes of the fixture
\* playoff_seeds (line 73), or the dict empty_bracket it has made (line
\* 707).  _get_live_standings returns what json.loads makes of the fixture
\* standings, or the list in _live_cache_data if the cache is fresh;
\* otherwise it goes to the upstream with the time it has read.
ThreadStarts ==
    /\ \E t \in Threads, job \in {"standings", "bracket"} :
          /\ threads[t].pc = "idle"
          /\ \A u \in Threads : u < t => threads[u].pc # "idle"
          /\ IF job = "bracket"
             THEN LET bracket == Object(t, IF MOCK_ESPN THEN 73 ELSE 707, 0)
                  IN  Called((bracket :> _get_playoff_bracket) @@ heap,
                             t, job, bracket)
             ELSE IF MOCK_ESPN
             THEN Called(ListObjects(t, 73, 73, standings) @@ heap,
                         t, job, Object(t, 73, 0))
             ELSE IF StandingsAreFresh(_live_cache_data, _live_cache_ts, clock,
                                       FALSE)
             THEN Called(heap, t, job, ListOf(_live_cache_data))
             ELSE /\ threads' = [threads EXCEPT
                         ![t].job = job, ![t].pc = "waiting", ![t].now = clock,
                         ![t].after = AnsweredSoFar]
                  /\ UNCHANGED heap
    /\ UNCHANGED <<seedingVars, bracketVars, navVars, parserVars, cacheVars,
                   contextVars, adapterVars>>

\* A request arrives when no other is being served.
ThreadStartsAlone == NoneInService /\ ThreadStarts

\* The wait of a request in httpx.get is over: _get_live_standings from
\* there, on the cache as it is by then.  Of an answer
\* _extract_minimal_standings makes a list (line 577) of dicts (line 600),
\* which is stored and returned; when the upstream fails, the list in
\* _live_cache_data is returned, if there is one.
ThreadReturns ==
    /\ \E t \in Threads :
          /\ threads[t].pc = "waiting"
          /\ \E kind \in Failures \cup {"object"} :
                LET made == ListObjects(t, 577, 600, standings)
                    got == FetchLiveStandings(
                               _live_cache_data, _live_cache_ts, threads[t].now,
                               [ kind |-> kind, body |-> Object(t, 577, 0) ])
                IN  /\ _live_cache_data' = got.data
                    /\ _live_cache_ts' = got.ts
                    /\ IF got.out.raised # 0
                       THEN ThreadFails(t, "standings", got.out)
                            /\ UNCHANGED heap
                       ELSE Called(IF kind = "object" THEN made @@ heap ELSE heap,
                                   t, "standings", got.out.data)
    /\ UNCHANGED <<MOCK_ESPN, clock, ticks, _games_cache, fetched, in_flight,
                   reply>>
    /\ UNCHANGED <<seedingVars, bracketVars, navVars, parserVars, contextVars,
                   adapterVars>>

\* One pass of `for team in standings` (lines 785-816): the entry at the
\* thread's index of the list, as the list and the entry are now, is read
\* with get, and the team_status made of it is appended to afc_teams or to
\* nfc_teams.
ThreadReadsEntry ==
    /\ \E t \in Threads :
          /\ InCall(t)
          /\ threads[t].job = "standings"
          /\ threads[t].i < Len(heap[threads[t].input])
          /\ LET k == threads[t].i + 1
                 team == heap[threads[t].input][k]
                 made == team_status(t, k, team)
                 teams == IF StartsWithAFC(heap[team].division)
                          THEN afc_teams(t) ELSE nfc_teams(t)
             IN  IF heap[team].division = NoDivision
                 THEN ThreadFails(t, "standings", AttributeError)
                      /\ UNCHANGED heap
                 ELSE /\ heap' = [(made :> TeamStatus(heap[team])) @@ heap
                                     EXCEPT ![teams] = Append(@, made)]
                      /\ threads' = [threads EXCEPT
                             ![t].i = k,
                             ![t].overlapped = @ \/ Overlaps(t)]
    /\ UNCHANGED <<seedingVars, bracketVars, navVars, parserVars, cacheVars,
                   contextVars, adapterVars>>

SeedsOf(bracket) ==
    [k \in 1..Len(bracket.afc_seeds) |-> << bracket.afc_seeds[k], "AFC" >>]
        \o [k \in 1..Len(bracket.nfc_seeds) |-> << bracket.nfc_seeds[k], "NFC" >>]

\* One pass of the loops over afc_seeds and nfc_seeds (lines 1012-1132):
\* the seed entry at the thread's index and the games of the bracket, as
\* they are now, are read with get, and a dict made of them is appended to
\* a list of the call.
ThreadReadsSeed ==
    /\ \E t \in Threads :
          /\ InCall(t)
          /\ threads[t].job = "bracket"
          /\ threads[t].i < Len(SeedsOf(heap[threads[t].input]))
          /\ LET bracket == heap[threads[t].input]
                 seed == SeedsOf(bracket)[threads[t].i + 1]
             IN  threads' = [threads EXCEPT
                     ![t].i = @ + 1,
                     ![t].seen = Append(@, BracketTeam(seed[1], seed[2],
                                                       bracket.games)),
                     ![t].overlapped = @ \/ Overlaps(t)]
    /\ UNCHANGED heap
    /\ UNCHANGED <<seedingVars, bracketVars, navVars, parserVars, cacheVars,
                   contextVars, adapterVars>>

IsAfc(team) == team.conference = "AFC"
IsNfc(team) == team.conference = "NFC"

\* The dicts of the list `teams` once assign_playoff_status has written
\* "seed", "status" and "status_detail" to them (lines 875-977), in the
\* order of the list; a list of fewer than PLAYOFF_SPOTS is returned at
\* once (lines 844-845).
Assigned(h, teams) ==
    IF Len(h[teams]) < PLAYOFF_SPOTS THEN Dicts(h, teams)
    ELSE PoolsAndStatus(Dicts(h, teams), get_division_leaders(Dicts(h, teams)))

\* The heap after assign_playoff_status(teams): the writes go to the
\* objects the items of the list name.
AfterAssign(h, teams) ==
    LET written == Assigned(h, teams)
    IN  [id \in DOMAIN h |->
            IF \E k \in 1..Len(h[teams]) : h[teams][k] = id
            THEN written[CHOOSE k \in 1..Len(h[teams]) : h[teams][k] = id]
            ELSE h[id]]

\* The rest of the function once its loop over the input has ended, and the
\* response of _get_playoff_picture: the engine calls assign_playoff_status
\* on afc_teams, then on nfc_teams (lines 986-990).
ThreadFinishes ==
    /\ \E t \in Threads :
          /\ InCall(t)
          /\ IF threads[t].job = "standings"
             THEN /\ threads[t].i >= Len(heap[threads[t].input])
                  /\ LET afc == AfterAssign(heap, afc_teams(t))
                     IN  /\ heap' = AfterAssign(afc, nfc_teams(t))
                         /\ threads' = [threads EXCEPT
                                ![t].pc = "done",
                                ![t].overlapped = @ \/ Overlaps(t),
                                ![t].result = RegularResponse(
                                    [ afc_teams |-> assign_playoff_status(
                                          Dicts(heap, afc_teams(t))),
                                      nfc_teams |-> assign_playoff_status(
                                          Dicts(afc, nfc_teams(t))) ])]
             ELSE /\ threads[t].i >= Len(SeedsOf(heap[threads[t].input]))
                  /\ threads' = [threads EXCEPT
                         ![t].pc = "done",
                         ![t].overlapped = @ \/ Overlaps(t),
                         ![t].result =
                             PostseasonResponse(
                                 heap[threads[t].input],
                                 [ afc_teams |-> SelectSeq(threads[t].seen, IsAfc),
                                   nfc_teams |-> SelectSeq(threads[t].seen, IsNfc),
                                   super_bowl_teams |->
                                       threads[t].super_bowl_teams ])]
                  /\ UNCHANGED heap
    /\ UNCHANGED <<seedingVars, bracketVars, navVars, parserVars, cacheVars,
                   contextVars, adapterVars>>

(***************************************************************************)
(* Specifications.                                                         *)
(***************************************************************************)
IdleSeeding ==
    /\ phase = "opening" /\ layout = 1 /\ standings = << >> /\ calls = 0
    /\ reordered = FALSE /\ waiting = EmptyBag
    /\ picture = NoPicture /\ previous = NoPicture
    /\ served = NoData /\ served_before = NoData

IdleBracket ==
    /\ afc_seeds = << >> /\ nfc_seeds = << >> /\ games = << >>
    /\ bracket_picture = NoPicture

IdleNavigation ==
    /\ nav = NavigationParams(FirstYear, 1, 2) /\ nav_from = nav
    /\ nav_dir = NoDirection /\ nav_code = 0
    /\ nav_back = nav /\ nav_dir_back = NoDirection
    /\ nav_origin = nav /\ nav_nexts = 0

IdleParser == stats = << >> /\ found = NotCalled

IdleCache == MOCK_ESPN = FALSE /\ EmptyCaches

IdleContext == context_reply = NoContextReply

IdleAdapter == upstream_groups = << >>

IdleThreads == heap = NoObjects /\ threads = [t \in Threads |-> NoThread]

IdleService == IdleCache /\ IdleContext /\ IdleAdapter /\ IdleThreads

\* The regular season: the upstream's standings grow; a request arrives,
\* waits for the upstream's answer and returns with it, or with a timeout,
\* while they still grow.
Init ==
    /\ InitSeeding({"opening", "closing"}) /\ IdleBracket /\ IdleNavigation
    /\ IdleParser /\ IdleService
Next ==
    \/ FeedAddsTeam
    \/ GetPlayoffPictureOnce \/ UpstreamAnswers \/ PictureReturnsOrTimesOut
Spec == Init /\ [][Next]_vars

\* The regular season with two requests and a feed that changes the order
\* of its entries after the first response.  A process on fixtures reads
\* the fixture again; a process on the upstream answers a request that
\* arrives after the first response from its cache, and one that was
\* waiting by then from the upstream, unless the upstream times out.
InitReorder ==
    /\ InitSeeding({"opening", "final"}) /\ IdleBracket /\ IdleNavigation
    /\ IdleParser /\ InitCache /\ IdleContext /\ IdleAdapter /\ IdleThreads
NextReorder ==
    \/ FeedAddsTeam \/ FeedReorders
    \/ GetPlayoffPicture \/ UpstreamAnswers \/ PictureReturnsOrTimesOut
SpecReorder == InitReorder /\ [][NextReorder]_vars

\* The regular season with a feed of one entry of any record.
InitRecords ==
    IdleSeeding /\ IdleBracket /\ IdleNavigation /\ IdleParser /\ IdleService
NextRecords ==
    FeedServesRecord \/ GetPlayoffPictureOnce \/ UpstreamAnswers \/ PictureReturns
SpecRecords == InitRecords /\ [][NextRecords]_vars

\* The postseason, in a process on fixtures and in one that is not.
InitPostseason ==
    /\ IdleSeeding /\ InitBracket /\ IdleNavigation /\ IdleParser
    /\ InitCache /\ IdleContext /\ IdleAdapter /\ IdleThreads
NextPostseason == BracketAddsGame \/ GetPostseasonPicture
SpecPostseason == InitPostseason /\ [][NextPostseason]_vars

\* The week navigation.
InitNavigate ==
    IdleSeeding /\ IdleBracket /\ InitNavigation /\ IdleParser /\ IdleService
NextNavigate == get_navigation_params
SpecNavigate == InitNavigate /\ [][NextNavigate]_vars

\* The live standings as time passes.
InitFetch ==
    /\ IdleSeeding /\ IdleBracket /\ IdleNavigation /\ IdleParser
    /\ InitCache /\ IdleContext /\ IdleAdapter /\ IdleThreads
NextFetch == ClockAdvances \/ GetLiveStandings \/ LiveStandingsReturn
SpecFetch == InitFetch /\ [][NextFetch]_vars

\* The weekly games alone as time passes.
InitGames ==
    /\ IdleSeeding /\ IdleBracket /\ IdleNavigation /\ IdleParser
    /\ InitCache /\ IdleContext /\ IdleAdapter /\ IdleThreads
NextGames == GamesClockAdvances \/ GetWeeklyGames \/ WeeklyGamesReturn
SpecGames == InitGames /\ [][NextGames]_vars

\* The weekly context.
InitWeeklyContext ==
    /\ IdleSeeding /\ IdleBracket /\ IdleNavigation /\ IdleParser
    /\ InitCache /\ InitContext /\ IdleAdapter /\ IdleThreads
NextWeeklyContext == GetWeeklyContext
SpecContext == InitWeeklyContext /\ [][NextWeeklyContext]_vars

\* The picture of the standings the adapter makes.
InitUpstream ==
    /\ IdleSeeding /\ IdleBracket /\ IdleNavigation /\ IdleParser
    /\ IdleCache /\ IdleContext /\ InitAdapter /\ IdleThreads
NextUpstream ==
    \/ UpstreamAddsGroup
    \/ GetPlayoffPictureOnce \/ UpstreamAnswersGroups \/ PictureReturns
SpecUpstream == InitUpstream /\ [][NextUpstream]_vars

\* Requests for the playoff picture served at once, all of them within
\* _LIVE_TTL_SECONDS.
InitConcurrent ==
    /\ InitThreads /\ IdleNavigation /\ IdleParser /\ IdleContext /\ IdleAdapter
NextConcurrent ==
    \/ ThreadStarts \/ ThreadReturns
    \/ ThreadReadsEntry \/ ThreadReadsSeed \/ ThreadFinishes
SpecConcurrent == InitConcurrent /\ [][NextConcurrent]_vars

\* Requests for the playoff picture served one after another as time
\* passes.
NextTwice ==
    \/ ClockAdvancesBy({_LIVE_TTL_SECONDS})
    \/ ThreadStartsAlone \/ ThreadReturns
    \/ ThreadReadsEntry \/ ThreadReadsSeed \/ ThreadFinishes
SpecTwice == InitConcurrent /\ [][NextTwice]_vars

\* find_first on the stats of an entry.
InitFind ==
    IdleSeeding /\ IdleBracket /\ IdleNavigation /\ InitParser /\ IdleService
NextFind == StatsGainItem \/ FindFirst
SpecFind == InitFind /\ [][NextFind]_vars

(***************************************************************************)
(* Vocabulary of the properties.                                           *)
(***************************************************************************)
ConferenceKeys == {"afc_teams", "nfc_teams"}

\* The latest response answers the standings as they are served now: it is
\* the picture computed from the list the feed serves.
Answered ==
    /\ calls >= 1
    /\ IsPicture(picture)
    /\ served = Cached(standings)

\* The standings entry belongs to the conference of the response field c.
InConference(e, c) == (c = "afc_teams") <=> StartsWithAFC(e.division)

\* The positions in standings of the entries of a conference, in list order.
ConferenceEntries(c) ==
    SelectRefs(Refs(standings),
               [i \in 1..Len(standings) |-> InConference(standings[i], c)])

ConferenceSize(c) == Len(ConferenceEntries(c))

ConferenceDivisions(c) ==
    {standings[i].division : i \in Range(ConferenceEntries(c))}

\* t has the strictly smallest (-wins, losses, name) of its division in out.
LeadsDivision(out, t) ==
    \A k \in 1..Len(out) :
        (out[k].division = t.division /\ out[k].team # t.team)
            => KeyLess(<< -t.wins, t.losses, t.team >>,
                       << -out[k].wins, out[k].losses, out[k].team >>)

SeededIn(out, lo, hi) == {k \in 1..Len(out) : out[k].seed \in lo..hi}

SeedsWellFormed(out) ==
    /\ Cardinality(SeededIn(out, 1, 4)) = 4
    /\ Cardinality(SeededIn(out, 5, 7)) = 3
    /\ \A s \in 1..7 : Cardinality(SeededIn(out, s, s)) = 1
    /\ \A k \in SeededIn(out, 1, 4) : LeadsDivision(out, out[k])

\* The wins of the best team of t's division.
DivisionLeaderWins(out, t) ==
    Max0({out[k].wins : k \in {j \in 1..Len(out) : out[j].division = t.division}})

(***************************************************************************)
(* C1 as stated: in every conference of at least 7 teams exactly four      *)
(* teams carry the seeds 1, 2, 3, 4, each a division leader, exactly three *)
(* carry the seeds 5, 6, 7, and no seed is carried twice.                  *)
(***************************************************************************)
C1_AsStated ==
    Answered =>
        \A c \in ConferenceKeys :
            ConferenceSize(c) >= 7 => SeedsWellFormed(picture[c])

(***************************************************************************)
(* C1, amended: in every conference of at least 7 teams whose teams are    *)
(* spread over exactly four divisions, exactly four teams carry the seeds  *)
(* 1, 2, 3, 4, each a division leader, exactly three carry the seeds 5, 6, *)
(* 7, and no seed is carried twice.                                        *)
(***************************************************************************)
C1_FourDivisions ==
    Answered =>
        \A c \in ConferenceKeys :
            (ConferenceSize(c) >= 7
                 /\ Cardinality(ConferenceDivisions(c)) = 4)
                => SeedsWellFormed(picture[c])

C1_Witness ==
    /\ Answered
    /\ ConferenceSize("afc_teams") > 7
    /\ Cardinality(ConferenceDivisions("afc_teams")) = 4
    /\ Cardinality(SeededIn(picture.afc_teams, 1, 7)) = 7

(***************************************************************************)
(* C2 as stated: for a standings list with distinct names and any          *)
(* reordering of it, each conference's output list is the same, and of two *)
(* teams with equal wins and losses the one with the smaller name comes    *)
(* first in it.                                                            *)
(***************************************************************************)
SmallerNameFirst(out, among(_, _)) ==
    \A i, j \in 1..Len(out) :
        (/\ i < j
         /\ among(out[i], out[j])
         /\ out[i].wins = out[j].wins
         /\ out[i].losses = out[j].losses) => StrLess(out[i].team, out[j].team)

AnyTwo(a, b) == TRUE

\* b holds the entries of a in another order.
IsReordering(a, b) ==
    /\ a # b
    /\ Len(a) = Len(b)
    /\ {a[k] : k \in 1..Len(a)} = {b[k] : k \in 1..Len(b)}

\* The latest two responses are pictures, the latest of the standings as
\* they are served now and the one before it of the same entries in another
\* order.
AnsweredReordered ==
    /\ calls >= 2
    /\ Answered
    /\ IsPicture(previous)
    /\ served_before # NoData
    /\ IsReordering(ListOf(served_before), standings)

C2_AsStated ==
    /\ AnsweredReordered =>
           \A c \in ConferenceKeys : picture[c] = previous[c]
    /\ Answered =>
           \A c \in ConferenceKeys : SmallerNameFirst(picture[c], AnyTwo)

(***************************************************************************)
(* C2, amended: for a standings list with distinct names and any           *)
(* reordering of it, the output list of each conference of at least 7      *)
(* teams is the same, and in such a list, of two teams with equal wins and *)
(* losses that are both division leaders or both not, the one with the     *)
(* smaller name comes first.                                               *)
(***************************************************************************)
C2_SeededConferences ==
    /\ AnsweredReordered =>
           \A c \in ConferenceKeys :
               ConferenceSize(c) >= 7 => picture[c] = previous[c]
    /\ Answered =>
           \A c \in ConferenceKeys :
               ConferenceSize(c) >= 7 =>
                   LET out == picture[c]
                       SameKind(a, b) == LeadsDivision(out, a) <=> LeadsDivision(out, b)
                   IN  SmallerNameFirst(out, SameKind)

\* A reordered feed of a seeded conference in which two teams of one division
\* have the same record, answered again.
C2_Witness ==
    /\ AnsweredReordered
    /\ ConferenceSize("afc_teams") >= 7
    /\ previous.afc_teams # << >>
    /\ [k \in 1..Len(standings) |-> standings[k].team]
           # [k \in 1..Len(standings) |-> SlotOf(k, TeamNames)]
    /\ \E i, j \in 1..Len(picture.afc_teams) :
           LET a == picture.afc_teams[i]
               b == picture.afc_teams[j]
           IN  /\ i < j /\ a.division = b.division
               /\ a.wins = b.wins /\ a.losses = b.losses

(***************************************************************************)
(* C3: two calls of the engine with the same standings list return equal   *)
(* results, whatever the call made first has written.                      *)
(***************************************************************************)
\* The engine has returned to the requests of the threads t and u, which
\* had called it with lists that held the same.
SameStandingsTwice(t, u) ==
    /\ t # u
    /\ threads[t].pc = "done" /\ threads[u].pc = "done"
    /\ threads[t].job = "standings" /\ threads[u].job = "standings"
    /\ threads[t].input # NoObject /\ threads[u].input # NoObject
    /\ threads[t].handed = threads[u].handed

C3_Idempotent ==
    \A t, u \in Threads :
        SameStandingsTwice(t, u) => threads[t].result = threads[u].result

\* The second call was made after the first had returned, with the same
\* list object, the cached one, and a conference of the list gets seeds.
C3_Witness ==
    \E t, u \in Threads :
        /\ SameStandingsTwice(t, u)
        /\ t \in threads[u].after
        /\ threads[t].input = threads[u].input
        /\ IsPicture(threads[u].result)
        /\ \E k \in 1..Len(threads[u].result.afc_teams) :
               threads[u].result.afc_teams[k].seed = 7

(***************************************************************************)
(* C4: for every seeded team of the bracket, playoff_wins + playoff_losses *)
(* is the number of games of the input with status "final", tagged with    *)
(* the team's conference or "Super Bowl", that name the team as home or    *)
(* away.                                                                   *)
(***************************************************************************)
BracketAnswered == bracket_picture # NoPicture

BracketTeams ==
    {bracket_picture.afc_teams[k] : k \in 1..Len(bracket_picture.afc_teams)}
        \cup {bracket_picture.nfc_teams[k] : k \in 1..Len(bracket_picture.nfc_teams)}

\* The positions of the final games that count for the team t.
TrackedFinals(t) ==
    LET gs == _get_playoff_bracket.games
    IN  {k \in 1..Len(gs) :
            /\ gs[k].status = "final"
            /\ gs[k].conference \in {t.conference, "Super Bowl"}
            /\ t.team \in {gs[k].home_team, gs[k].away_team}}

C4_GamesCounted ==
    BracketAnswered =>
        \A t \in BracketTeams :
            t.playoff_wins + t.playoff_losses = Cardinality(TrackedFinals(t))

\* A seeded team with a final game that counts, a final game of the other
\* conference and a game that is not final.
C4_Witness ==
    /\ BracketAnswered
    /\ \E t \in BracketTeams :
           /\ TrackedFinals(t) # {}
           /\ \E k \in 1..Len(_get_playoff_bracket.games) :
                  /\ t.team \in {_get_playoff_bracket.games[k].home_team,
                                 _get_playoff_bracket.games[k].away_team}
                  /\ k \notin TrackedFinals(t)

(***************************************************************************)
(* C5: in a conference of at least 7 teams the team with seed 1  *)
(* has status clinched_bye exactly when its wins are strictly greater than *)
(* the maxPossibleWins of every other team of its division, and status     *)
(* in_position otherwise.                                                  *)
(***************************************************************************)
DivisionRivals(out, t) ==
    {k \in 1..Len(out) : out[k].division = t.division /\ out[k].team # t.team}

BeatsEveryRival(out, t) ==
    \A k \in DivisionRivals(out, t) : t.wins > out[k].max_possible_wins

TopSeedStatus(out, clinched(_)) ==
    \A k \in 1..Len(out) :
        out[k].seed = 1 =>
            out[k].status = IF clinched(out[k]) THEN "clinched_bye" ELSE "in_position"

C5_AsStated ==
    Answered =>
        \A c \in ConferenceKeys :
            ConferenceSize(c) >= 7 =>
                LET out == picture[c]
                    Clinched(t) == BeatsEveryRival(out, t)
                IN  TopSeedStatus(out, Clinched)

(***************************************************************************)
(* C6 as stated: every unseeded team that has no games remaining and whose *)
(* maxPossibleWins is below the wins of the team with seed 7 is classified *)
(* eliminated.                                                             *)
(***************************************************************************)
\* The wins of the team with seed 7, for each such team of out.
SeventhSeedWins(out) == {out[k].wins : k \in SeededIn(out, 7, 7)}

C6_AsStated ==
    Answered =>
        \A c \in ConferenceKeys :
            LET out == picture[c]
            IN  \A k \in 1..Len(out) : \A seventh \in SeventhSeedWins(out) :
                    (/\ out[k].seed = NoSeed
                     /\ out[k].games_remaining = 0
                     /\ out[k].max_possible_wins < seventh)
                        => out[k].status = "eliminated"

(***************************************************************************)
(* C6, amended: every unseeded team that has no games remaining and whose  *)
(* maxPossibleWins is below the wins of the team with seed 7 and below the *)
(* wins of the leader of its own division is classified eliminated.        *)
(***************************************************************************)
C6_OutOfBothRaces ==
    Answered =>
        \A c \in ConferenceKeys :
            LET out == picture[c]
            IN  \A k \in 1..Len(out) : \A seventh \in SeventhSeedWins(out) :
                    (/\ out[k].seed = NoSeed
                     /\ out[k].games_remaining = 0
                     /\ out[k].max_possible_wins < seventh
                     /\ out[k].max_possible_wins < DivisionLeaderWins(out, out[k]))
                        => out[k].status = "eliminated"

C6_Witness ==
    /\ Answered
    /\ \E k \in 1..Len(picture.afc_teams) : \E seventh \in SeventhSeedWins(picture.afc_teams) :
           LET t == picture.afc_teams[k]
           IN  /\ t.seed = NoSeed
               /\ t.games_remaining = 0
               /\ t.max_possible_wins < seventh
               /\ t.max_possible_wins < DivisionLeaderWins(picture.afc_teams, t)
               /\ t.status = "eliminated"

(***************************************************************************)
(* C7 as stated: a seeded team whose only final game in the input is a     *)
(* loss in round "Divisional" gets eliminated_round "Divisional" and       *)
(* status "eliminated".                                                    *)
(***************************************************************************)
\* The positions of the final games that name the team.
FinalsOf(t) ==
    LET gs == _get_playoff_bracket.games
    IN  {k \in 1..Len(gs) :
            /\ gs[k].status = "final"
            /\ t.team \in {gs[k].home_team, gs[k].away_team}}

OnlyDivisionalLoss(t, finals) ==
    LET gs == _get_playoff_bracket.games
    IN  /\ Cardinality(finals) = 1
        /\ \A k \in finals : gs[k].round = "Divisional" /\ gs[k].winner # t.team

C7_AsStated ==
    BracketAnswered =>
        \A t \in BracketTeams :
            OnlyDivisionalLoss(t, FinalsOf(t))
                => t.eliminated_round = "Divisional" /\ t.status = "eliminated"

(***************************************************************************)
(* C7, amended: a seeded team whose only final game among the games tagged *)
(* with its conference or "Super Bowl" is a loss in round "Divisional"     *)
(* gets eliminated_round "Divisional"; its status is "eliminated" when the *)
(* eliminated flag of its seed entry is true and no game tagged            *)
(* "Super Bowl" names it.                                                  *)
(***************************************************************************)
\* The seed entries of the bracket the handler got, each with the team the
\* response has for it.
SeedEntries ==
    LET afc == _get_playoff_bracket.afc_seeds
        nfc == _get_playoff_bracket.nfc_seeds
    IN  {<< afc[k], bracket_picture.afc_teams[k] >> : k \in 1..Len(afc)}
            \cup {<< nfc[k], bracket_picture.nfc_teams[k] >> : k \in 1..Len(nfc)}

InSuperBowlGame(t) ==
    LET gs == _get_playoff_bracket.games
    IN  \E k \in 1..Len(gs) :
            /\ gs[k].conference = "Super Bowl"
            /\ t.team \in {gs[k].home_team, gs[k].away_team}

C7_DivisionalLoss ==
    BracketAnswered =>
        \A p \in SeedEntries :
            LET entry == p[1]
                t == p[2]
            IN  OnlyDivisionalLoss(t, TrackedFinals(t)) =>
                    /\ t.eliminated_round = "Divisional"
                    /\ (entry.eliminated /\ ~InSuperBowlGame(t))
                           => t.status = "eliminated"

C7_Witness ==
    /\ BracketAnswered
    /\ \E p \in SeedEntries :
           /\ OnlyDivisionalLoss(p[2], TrackedFinals(p[2]))
           /\ p[1].eliminated
           /\ ~InSuperBowlGame(p[2])
           /\ Len(_get_playoff_bracket.games) = 2

(***************************************************************************)
(* C8: an unseeded team whose maxPossibleWins is at least the wins of the  *)
(* team with seed 7 is classified in_hunt, never eliminated.               *)
(***************************************************************************)
C8_CanTieCutoff ==
    Answered =>
        \A c \in ConferenceKeys :
            LET out == picture[c]
            IN  \A k \in 1..Len(out) : \A seventh \in SeventhSeedWins(out) :
                    (out[k].seed = NoSeed /\ out[k].max_possible_wins >= seventh)
                        => out[k].status = "in_hunt"

\* An unseeded team that cannot win its division any more and whose
\* maxPossibleWins equals the wins of the team with seed 7.
C8_Witness ==
    /\ Answered
    /\ \E k \in 1..Len(picture.afc_teams) : \E seventh \in SeventhSeedWins(picture.afc_teams) :
           LET t == picture.afc_teams[k]
           IN  /\ t.seed = NoSeed
               /\ t.max_possible_wins = seventh
               /\ t.max_possible_wins < DivisionLeaderWins(picture.afc_teams, t)

(***************************************************************************)
(* C9: the leader of a division is the one team with the smallest key      *)
(* (-wins, losses, name); of two teams of a division with the same record  *)
(* the one whose name sorts later is in the wild-card pool and never       *)
(* carries a seed of 1 to 4.                                               *)
(***************************************************************************)
\* The team dicts of a conference as the engine builds them from standings.
BuiltTeams(c) ==
    ConferenceTeams(<< >>, standings, IF c = "afc_teams" THEN "AFC" ELSE "NFC")

C9_LeaderByName ==
    Answered =>
        \A c \in ConferenceKeys :
            LET teams == BuiltTeams(c)
                leaders == get_division_leaders(teams)
                out == picture[c]
            IN  /\ \A div \in DOMAIN leaders : LeadsDivision(teams, teams[leaders[div]])
                /\ ConferenceSize(c) >= 7 =>
                       \A i, j \in 1..Len(out) :
                           (/\ out[i].division = out[j].division
                            /\ out[i].wins = out[j].wins
                            /\ out[i].losses = out[j].losses
                            /\ StrLess(out[i].team, out[j].team))
                               => /\ out[j].seed \notin 1..4
                                  /\ out[j].team \notin leader_names(teams, leaders)
                                  /\ \E r \in Range(non_winners(teams,
                                                     leader_names(teams, leaders))) :
                                         teams[r].team = out[j].team

\* The two best teams of a division have the same record, and the one whose
\* name sorts first comes later in the standings.
C9_Witness ==
    /\ Answered
    /\ ConferenceSize("afc_teams") >= 7
    /\ \E i, j \in 1..Len(standings) :
           /\ i < j
           /\ standings[i].division = standings[j].division
           /\ standings[i].wins = standings[j].wins
           /\ standings[i].losses = standings[j].losses
           /\ StrLess(standings[j].team, standings[i].team)
           /\ \E k \in 1..Len(picture.afc_teams) :
                  /\ picture.afc_teams[k].team = standings[j].team
                  /\ picture.afc_teams[k].seed \in 1..4

(***************************************************************************)
(* C10: a conference of fewer than 7 teams is returned unmodified: the     *)
(* same teams in the order of the input, every one with no seed.           *)
(***************************************************************************)
C10_SmallConference ==
    Answered =>
        \A c \in ConferenceKeys :
            ConferenceSize(c) < 7 =>
                LET out == picture[c]
                    entries == ConferenceEntries(c)
                IN  /\ Len(out) = Len(entries)
                    /\ \A k \in 1..Len(out) :
                           LET e == standings[entries[k]]
                           IN  /\ out[k].team = e.team
                               /\ out[k].division = e.division
                               /\ out[k].wins = e.wins
                               /\ out[k].losses = e.losses
                               /\ out[k].ties = e.ties
                               /\ out[k].seed = NoSeed
                               /\ out[k].status = "in_hunt"

\* Six teams of one conference, not in the order of their records.
C10_Witness ==
    /\ Answered
    /\ ConferenceSize("afc_teams") = 6
    /\ Len(picture.afc_teams) = 6
    /\ picture.afc_teams[1].wins < picture.afc_teams[2].wins

(***************************************************************************)
(* C11: the status of every seeded team of the bracket is super_bowl when  *)
(* its name is in the Super Bowl list, also when its eliminated flag is    *)
(* true; otherwise eliminated exactly when the eliminated flag of its seed *)
(* entry is true; otherwise alive.  The games replayed for the team have   *)
(* no part in it.                                                          *)
(***************************************************************************)
\* The status the priority rule gives to the team of a seed entry.
StatusByPriority(entry) ==
    IF entry.team \in Range(bracket_picture.super_bowl_teams) THEN "super_bowl"
    ELSE IF entry.eliminated THEN "eliminated"
    ELSE "alive"

C11_StatusPriority ==
    BracketAnswered =>
        \A p \in SeedEntries : p[2].status = StatusByPriority(p[1])

\* A team named by a Super Bowl game whose eliminated flag is true and that
\* has lost a final game, beside a team that is alive after a lost game.
C11_Witness ==
    /\ BracketAnswered
    /\ \E p \in SeedEntries :
           /\ p[1].eliminated
           /\ p[2].playoff_losses > 0
           /\ p[2].status = "super_bowl"
    /\ \E p \in SeedEntries :
           /\ ~p[1].eliminated
           /\ p[2].playoff_losses > 0
           /\ p[2].status = "alive"

(***************************************************************************)
(* C12 as stated: the Super Bowl list of the response holds at most two    *)
(* team names and holds no name twice.                                     *)
(***************************************************************************)
NoNameTwice(names) ==
    \A i, j \in 1..Len(names) : names[i] = names[j] => i = j

C12_AsStated ==
    BracketAnswered =>
        /\ Len(bracket_picture.super_bowl_teams) <= 2
        /\ NoNameTwice(bracket_picture.super_bowl_teams)

(***************************************************************************)
(* C13 as stated: whenever a team has status clinched_wildcard, every team *)
(* of its conference without a seed has maxPossibleWins strictly below the *)
(* wins of the clinched team.                                              *)
(***************************************************************************)
C13_AsStated ==
    Answered =>
        \A c \in ConferenceKeys :
            LET out == picture[c]
            IN  \A i, j \in 1..Len(out) :
                    (out[i].status = "clinched_wildcard" /\ out[j].seed = NoSeed)
                        => out[j].max_possible_wins < out[i].wins

(***************************************************************************)
(* C14: for every record with non-negative wins, losses and ties,          *)
(* games_remaining = max(0, 17 - (wins + losses + ties)) and               *)
(* max_possible_wins = wins + games_remaining; games_remaining is never    *)
(* negative, max_possible_wins is never below wins, and max_possible_wins  *)
(* is at most 17 when wins + losses + ties is at most 17.                  *)
(***************************************************************************)
GamesOf(e) == e.wins + e.losses + e.ties

C14_Numerics ==
    Answered =>
        \A c \in ConferenceKeys :
            LET out == picture[c]
                entries == ConferenceEntries(c)
            IN  /\ Len(out) = Len(entries)
                /\ \A k \in 1..Len(out) :
                       LET e == standings[entries[k]]
                       IN  /\ out[k].games_remaining =
                                  (IF 17 - GamesOf(e) > 0 THEN 17 - GamesOf(e) ELSE 0)
                           /\ out[k].max_possible_wins = e.wins + out[k].games_remaining
                           /\ out[k].games_remaining >= 0
                           /\ out[k].max_possible_wins >= e.wins
                           /\ GamesOf(e) <= 17 => out[k].max_possible_wins <= 17

\* A record of more than 17 games has been answered.
C14_Witness ==
    /\ Answered
    /\ Len(picture.afc_teams) = 1
    /\ GamesOf(standings[1]) > 17
    /\ picture.afc_teams[1].games_remaining = 0
    /\ picture.afc_teams[1].max_possible_wins = standings[1].wins

(***************************************************************************)
(* C15: with a season type of 1, 2 or 3 and a week inside the limits of    *)
(* the type (1-4, 1-18, 1-4), "next" and "prev" change the week by one and *)
(* keep year and seasonType; "next" from the last week gives week 1 of the *)
(* following type, in year + 1 after the postseason; "prev" from week 1    *)
(* gives the last week of the preceding type, in year - 1 before the       *)
(* preseason.                                                              *)
(***************************************************************************)
LastWeek(t) == IF t = 2 THEN 18 ELSE 4
FollowingType(t) == IF t = 3 THEN 1 ELSE t + 1
PrecedingType(t) == IF t = 1 THEN 3 ELSE t - 1

\* The last request was answered with navigation parameters.
Navigated == nav_code = 200

StepsAsSeason(from, last, after, before) ==
    IF nav_dir = "next"
    THEN IF from.week < last
         THEN nav = NavigationParams(from.year, from.week + 1, from.seasonType)
         ELSE nav = after
    ELSE IF from.week > 1
         THEN nav = NavigationParams(from.year, from.week - 1, from.seasonType)
         ELSE nav = before

C15_ValidNavigation ==
    (/\ Navigated
     /\ nav_from.seasonType \in {1, 2, 3}
     /\ nav_from.week \in 1..LastWeek(nav_from.seasonType))
        => LET t == nav_from.seasonType
               y == nav_from.year
           IN  StepsAsSeason(nav_from, LastWeek(t),
                   NavigationParams(IF t = 3 THEN y + 1 ELSE y, 1, FollowingType(t)),
                   NavigationParams(IF t = 1 THEN y - 1 ELSE y,
                                    LastWeek(PrecedingType(t)), PrecedingType(t)))

\* "next" from the last week of the postseason has been answered: the page
\* that follows is week 1 of the preseason of the next year.
C15_Witness ==
    /\ Navigated
    /\ nav_dir = "next"
    /\ nav_from = NavigationParams(FirstYear, 4, 3)
    /\ nav = NavigationParams(FirstYear + 1, 1, 1)

(***************************************************************************)
(* C16 as stated: with a season type other than 1, 2 and 3 the week limits *)
(* are 1-18; inside them the week changes by one and year and seasonType   *)
(* are kept; "next" from week 18 gives postseason week 1 of the same year  *)
(* and "prev" from week 1 gives preseason week 4 of the same year.         *)
(***************************************************************************)
C16_AsStated ==
    (/\ Navigated
     /\ nav_from.seasonType \notin {1, 2, 3}
     /\ nav_from.week \in 1..18)
        => StepsAsSeason(nav_from, 18,
                         NavigationParams(nav_from.year, 1, 3),
                         NavigationParams(nav_from.year, 4, 1))

(***************************************************************************)
(* C17 as stated: find_first raises ValueError when no item of the list    *)
(* satisfies the condition, the empty list included; otherwise it returns  *)
(* the first item in list order that satisfies it.                         *)
(***************************************************************************)
Matches == {k \in 1..Len(stats) : stats[k].name = found.condition}

C17_AsStated ==
    found # NotCalled =>
        IF Matches = {}
        THEN found.raised = "ValueError"
        ELSE /\ found.raised = ""
             /\ \E k \in Matches :
                    /\ \A j \in Matches : k <= j
                    /\ found.value = stats[k]

(***************************************************************************)
(* C18: in a conference of at least 7 teams every team without a seed is   *)
(* classified in this order: in_hunt when its maxPossibleWins is at least  *)
(* the wins of the leader of its division; otherwise, with strictlyAhead   *)
(* and atSameLevel counted over the other teams that lead no division,     *)
(* eliminated when strictlyAhead >= 3, else in_hunt when strictlyAhead +   *)
(* atSameLevel >= 3, else eliminated when maxPossibleWins is below the     *)
(* wins of seventh place, else in_hunt.                                    *)
(***************************************************************************)
\* The positions of the teams of out that lead no division, t left out.
OtherNonWinners(out, t) ==
    {j \in 1..Len(out) : out[j].team # t.team /\ ~LeadsDivision(out, out[j])}

StrictlyAhead(out, t) ==
    Cardinality({j \in OtherNonWinners(out, t) : out[j].wins > t.max_possible_wins})

AtSameLevel(out, t) ==
    Cardinality({j \in OtherNonWinners(out, t) : out[j].wins = t.max_possible_wins})

DecisionOrder(in_division_race, ahead, level, below_seventh) ==
    IF in_division_race THEN "in_hunt"
    ELSE IF ahead >= 3 THEN "eliminated"
    ELSE IF ahead + level >= 3 THEN "in_hunt"
    ELSE IF below_seventh THEN "eliminated"
    ELSE "in_hunt"

StatusByDecisionOrder(out, t, seventh) ==
    DecisionOrder(t.max_possible_wins >= DivisionLeaderWins(out, t),
                  StrictlyAhead(out, t), AtSameLevel(out, t),
                  t.max_possible_wins < seventh)

C18_DecisionOrder ==
    Answered =>
        \A c \in ConferenceKeys :
            ConferenceSize(c) >= 7 =>
                LET out == picture[c]
                IN  \A k \in 1..Len(out) : \A seventh \in SeventhSeedWins(out) :
                        out[k].seed = NoSeed =>
                            out[k].status = StatusByDecisionOrder(out, out[k], seventh)

\* One answer with a team still in its division race although three teams
\* are strictly ahead of it, and a team out of its division race with three
\* teams strictly ahead.
C18_Witness ==
    /\ Answered
    /\ ConferenceSize("afc_teams") >= 7
    /\ LET out == picture.afc_teams
       IN  /\ \E k \in 1..Len(out) :
                  /\ out[k].seed = NoSeed
                  /\ out[k].max_possible_wins >= DivisionLeaderWins(out, out[k])
                  /\ StrictlyAhead(out, out[k]) >= 3
                  /\ out[k].status = "in_hunt"
           /\ \E k \in 1..Len(out) :
                  /\ out[k].seed = NoSeed
                  /\ out[k].max_possible_wins < DivisionLeaderWins(out, out[k])
                  /\ StrictlyAhead(out, out[k]) >= 3
                  /\ out[k].status = "eliminated"

(***************************************************************************)
(* C19 as stated: the three best teams that lead no division, by           *)
(* (-wins, losses, name), carry the seeds 5, 6 and 7 in that order; each   *)
(* is clinched_wildcard exactly when its wins are strictly greater than    *)
(* the maxPossibleWins of the fourth best such team (0 when there is       *)
(* none), and in_position otherwise.                                       *)
(***************************************************************************)
NonWinners(out) == {j \in 1..Len(out) : ~LeadsDivision(out, out[j])}

\* How many of the teams at the positions nw come before out[k] by
\* (-wins, losses, name).
NonWinnerRank(out, nw, k) ==
    Cardinality({j \in nw :
                    KeyLess(<< -out[j].wins, out[j].losses, out[j].team >>,
                            << -out[k].wins, out[k].losses, out[k].team >>)})

\* rank[k] is the rank of out[k] among the teams that lead no division.
EighthPlaceMax(out, rank) ==
    Max0({out[j].max_possible_wins : j \in {i \in DOMAIN rank : rank[i] = 3}})

WildCardsAsRanked(out, rank, eighth) ==
    \A k \in DOMAIN rank :
        rank[k] < 3 =>
            /\ out[k].seed = 5 + rank[k]
            /\ out[k].status = IF out[k].wins > eighth
                               THEN "clinched_wildcard" ELSE "in_position"

WildCardsSeeded(out) ==
    LET nw == NonWinners(out)
        rank == [k \in nw |-> NonWinnerRank(out, nw, k)]
    IN  WildCardsAsRanked(out, rank, EighthPlaceMax(out, rank))

C19_AsStated ==
    Answered => \A c \in ConferenceKeys : WildCardsSeeded(picture[c])

(***************************************************************************)
(* C19, amended: in a conference of at least 7 teams the three best teams  *)
(* that lead no division carry the seeds 5, 6 and 7 in that order, and     *)
(* each is clinched_wildcard exactly when its wins are strictly greater    *)
(* than the maxPossibleWins of the fourth best such team (0 when there is  *)
(* none), and in_position otherwise.                                       *)
(***************************************************************************)
C19_WildCards ==
    Answered =>
        \A c \in ConferenceKeys :
            ConferenceSize(c) >= 7 => WildCardsSeeded(picture[c])

\* A clinched wild card and one in position in the same answer, with a
\* fourth team that leads no division.
C19_Witness ==
    /\ Answered
    /\ ConferenceSize("afc_teams") >= 7
    /\ LET out == picture.afc_teams
       IN  /\ Cardinality(NonWinners(out)) >= 4
           /\ \E k \in NonWinners(out) : out[k].status = "clinched_wildcard"
           /\ \E k \in NonWinners(out) :
                  out[k].seed \in 5..7 /\ out[k].status = "in_position"

(***************************************************************************)
(* C20: for a conference of at least 7 teams the output holds every input  *)
(* team of the conference exactly once, the teams with a seed first in     *)
(* strictly ascending order of seed, then the teams without a seed in      *)
(* ascending order of (-wins, losses, name).                               *)
(***************************************************************************)
\* out[i] may stand before out[j].
InOutputOrder(a, b) ==
    IF a.seed # NoSeed
    THEN b.seed = NoSeed \/ a.seed < b.seed
    ELSE /\ b.seed = NoSeed
         /\ KeyLess(<< -a.wins, a.losses, a.team >>, << -b.wins, b.losses, b.team >>)

C20_OutputOrder ==
    Answered =>
        \A c \in ConferenceKeys :
            ConferenceSize(c) >= 7 =>
                LET out == picture[c]
                    entries == ConferenceEntries(c)
                IN  /\ Len(out) = Len(entries)
                    /\ \A e \in Range(entries) :
                           Cardinality({k \in 1..Len(out) :
                                           /\ out[k].team = standings[e].team
                                           /\ out[k].division = standings[e].division
                                           /\ out[k].wins = standings[e].wins
                                           /\ out[k].losses = standings[e].losses
                                           /\ out[k].ties = standings[e].ties}) = 1
                    /\ \A i, j \in 1..Len(out) : i < j => InOutputOrder(out[i], out[j])

\* Two teams without a seed that the feed serves in the other order, after
\* seeded teams.
C20_Witness ==
    /\ Answered
    /\ ConferenceSize("afc_teams") >= 7
    /\ \E i, j \in 1..Len(standings) :
           /\ i < j
           /\ \E a, b \in 1..Len(picture.afc_teams) :
                  /\ b < a
                  /\ picture.afc_teams[a].team = standings[i].team
                  /\ picture.afc_teams[b].team = standings[j].team
                  /\ picture.afc_teams[a].seed = NoSeed
                  /\ picture.afc_teams[b].seed = NoSeed

(***************************************************************************)
(* C25: in every output of the seeding engine a team with seed 1 to 4 has  *)
(* status clinched_bye, clinched_division or in_position, clinched_bye     *)
(* only with seed 1 and clinched_division only with seeds 2 to 4; a team   *)
(* with seed 5 to 7 has status clinched_wildcard or in_position; a team    *)
(* with no seed has status in_hunt or eliminated.                          *)
(***************************************************************************)
StatusFitsSeed(t) ==
    CASE t.seed = 1 -> t.status \in {"clinched_bye", "in_position"}
      [] t.seed \in 2..4 -> t.status \in {"clinched_division", "in_position"}
      [] t.seed \in 5..7 -> t.status \in {"clinched_wildcard", "in_position"}
      [] OTHER -> t.seed = NoSeed /\ t.status \in {"in_hunt", "eliminated"}

C25_StatusFitsSeed ==
    Answered =>
        \A c \in ConferenceKeys :
            \A k \in 1..Len(picture[c]) : StatusFitsSeed(picture[c][k])

\* One answer with a clinched top seed, a clinched division winner behind
\* it, a wild card and a team without a seed.
C25_Witness ==
    /\ Answered
    /\ LET out == picture.afc_teams
       IN  /\ \E k \in 1..Len(out) : out[k].seed = 1 /\ out[k].status = "clinched_bye"
           /\ \E k \in 1..Len(out) :
                  out[k].seed \in 2..4 /\ out[k].status = "clinched_division"
           /\ \E k \in 1..Len(out) : out[k].seed \in 5..7
           /\ \E k \in 1..Len(out) : out[k].seed = NoSeed

(***************************************************************************)
(* C26: a team without a seed is classified eliminated exactly when its    *)
(* maxPossibleWins is below the wins of the leader of its division and     *)
(* below the wins of the team with seed 7; for such a team the test        *)
(* strictlyAhead >= 3 and the test maxPossibleWins < seventhPlaceWins      *)
(* agree, so the later branch on seventhPlaceWins never decides.           *)
(***************************************************************************)
\* t's maxPossibleWins is below the wins of the team with seed 7.
BelowSeventhSeed(out, t) ==
    \E seventh \in SeventhSeedWins(out) : t.max_possible_wins < seventh

C26_EliminatedExactly ==
    Answered =>
        \A c \in ConferenceKeys :
            LET out == picture[c]
            IN  \A k \in 1..Len(out) :
                    out[k].seed = NoSeed =>
                        /\ out[k].status = "eliminated" <=>
                               (/\ out[k].max_possible_wins < DivisionLeaderWins(out, out[k])
                                /\ BelowSeventhSeed(out, out[k]))
                        /\ (ConferenceSize(c) >= 7 /\ ~LeadsDivision(out, out[k])) =>
                               (StrictlyAhead(out, out[k]) >= 3
                                    <=> BelowSeventhSeed(out, out[k]))

\* A conference of seven or more where one team without a seed is
\* eliminated, below its division leader and the seventh seed, and another
\* is still in the hunt.
C26_Witness ==
    /\ Answered
    /\ ConferenceSize("afc_teams") >= 7
    /\ LET out == picture.afc_teams
       IN  /\ \E k \in 1..Len(out) :
                  /\ out[k].seed = NoSeed
                  /\ out[k].status = "eliminated"
                  /\ out[k].max_possible_wins < DivisionLeaderWins(out, out[k])
                  /\ BelowSeventhSeed(out, out[k])
                  /\ StrictlyAhead(out, out[k]) >= 3
           /\ \E k \in 1..Len(out) :
                  out[k].seed = NoSeed /\ out[k].status = "in_hunt"

(***************************************************************************)
(* C27: from a valid page (seasonType 1, 2 or 3, week within the limits of *)
(* that type) "next" followed by "prev" returns the page, and so does      *)
(* "prev" followed by "next", across season-type and year boundaries too.  *)
(***************************************************************************)
ValidPage(p) == p.seasonType \in {1, 2, 3} /\ p.week \in 1..LastWeek(p.seasonType)

\* The last two requests went there and back.
ThereAndBack ==
    \/ nav_dir_back = "next" /\ nav_dir = "prev"
    \/ nav_dir_back = "prev" /\ nav_dir = "next"

C27_RoundTrip == (ThereAndBack /\ ValidPage(nav_back)) => nav = nav_back

\* A round trip over the year boundary, one way or the other.
C27_Witness ==
    /\ ThereAndBack
    /\ ValidPage(nav_back)
    /\ nav_from.year # nav_back.year
    /\ nav = nav_back

(***************************************************************************)
(* C28: "next" repeated from a valid page visits only valid pages, goes    *)
(* through the season types in the order 1, 2, 3, 1, and after exactly 26  *)
(* steps shows the starting week and season type again with the year one   *)
(* greater; the year changes at no other step than the one that leaves the *)
(* postseason.                                                             *)
(***************************************************************************)
\* The last request was one of a run of "next" that began on a valid page.
InSeasonRun == nav_nexts > 0 /\ ValidPage(nav_origin)

C28_SeasonCycle ==
    InSeasonRun =>
        /\ ValidPage(nav)
        /\ nav.seasonType \in {nav_from.seasonType, FollowingType(nav_from.seasonType)}
        /\ nav.seasonType # nav_from.seasonType =>
               nav_from.week = LastWeek(nav_from.seasonType) /\ nav.week = 1
        /\ nav.year # nav_from.year =>
               /\ nav_from.seasonType = 3 /\ nav.seasonType = 1
               /\ nav.year = nav_from.year + 1
        /\ nav_nexts <= 26 => nav.year \in {nav_origin.year, nav_origin.year + 1}
        /\ nav_nexts < 26 => <<nav.week, nav.seasonType>>
                                 # <<nav_origin.week, nav_origin.seasonType>>
        /\ nav_nexts = 26 =>
               nav = NavigationParams(nav_origin.year + 1, nav_origin.week,
                                      nav_origin.seasonType)

\* A run of 26 steps that began in the regular season.
C28_Witness ==
    /\ InSeasonRun
    /\ nav_nexts = 26
    /\ nav_origin.seasonType = 2
    /\ nav = NavigationParams(nav_origin.year + 1, nav_origin.week, 2)

(***************************************************************************)
(* C21 as stated: once a fetch for a URL has given a non-empty list of     *)
(* games, at time t for the latest such fetch, t being the time the fetch  *)
(* succeeded, a later call of _get_weekly_games for that URL without       *)
(* force_refresh less than 60 seconds after t returns that list without    *)
(* contacting the upstream; a call 60 seconds or more after t, or with     *)
(* force_refresh, contacts the upstream.                                   *)
(***************************************************************************)
WeeklyGamesCalled == reply.fn = "_get_weekly_games"
Contacted == reply.upstream # "none"
\* The call has returned from the cache or has gone to the upstream.
CallBegan == reply.upstream \in {"none", "sent"}

C21_AsStated ==
    (WeeklyGamesCalled /\ CallBegan /\ reply.was # NoFetch) =>
        IF ~reply.force_refresh /\ reply.at - reply.was.done < 60
        THEN ~Contacted /\ reply.raised = 0 /\ reply.data = reply.was.data
        ELSE Contacted

(***************************************************************************)
(* C21, amended: once a fetch for a URL has given a non-empty list of      *)
(* games, t being the time the call of the latest such fetch read before   *)
(* it contacted the upstream, a later call of _get_weekly_games for that   *)
(* URL without force_refresh less than 60 seconds after t returns that     *)
(* list without contacting the upstream; a call 60 seconds or more after   *)
(* t, or with force_refresh, contacts the upstream.                        *)
(***************************************************************************)
C21_Freshness ==
    (WeeklyGamesCalled /\ CallBegan /\ reply.was # NoFetch) =>
        IF ~reply.force_refresh /\ reply.at - reply.was.ts < 60
        THEN ~Contacted /\ reply.raised = 0 /\ reply.data = reply.was.data
        ELSE Contacted

\* A call 59 seconds after the time a fetch read, made as the answer to
\* that fetch arrives, and answered from the cache.
C21_Witness ==
    /\ WeeklyGamesCalled
    /\ reply.was # NoFetch
    /\ ~reply.force_refresh
    /\ reply.at - reply.was.ts = 59
    /\ reply.was.done = reply.at
    /\ ~Contacted
    /\ reply.data = reply.was.data

(***************************************************************************)
(* C22: in _get_weekly_games and _get_live_standings, when a cache entry   *)
(* exists for the request, an upstream failure of any kind (timeout, HTTP  *)
(* error status, request error, malformed payload) returns the cached      *)
(* data; an HTTPException is raised only when there is no cache entry: 504 *)
(* for a timeout, 502 for an HTTP status or a request error, 500           *)
(* otherwise.                                                              *)
(***************************************************************************)
\* The cache had an entry for the request when the call began.
HadEntry ==
    IF reply.fn = "_get_live_standings" THEN reply.had.data # NoData
    ELSE reply.had # NoEntry

\* The upstream failed: an exception, or a payload without the content.
UpstreamFailed ==
    \/ reply.upstream \in Failures
    \/ reply.upstream = "object" /\ reply.body = << >>

StatusOfFailure ==
    CASE reply.upstream = "timeout" -> 504
      [] reply.upstream \in {"http_status", "request_error"} -> 502
      [] OTHER -> 500

\* The data of the cache entry the call found.
CachedData ==
    IF reply.fn = "_get_live_standings" THEN ListOf(reply.had.data)
    ELSE reply.had.data

C22_AsStated ==
    (reply.fn # "" /\ Contacted) =>
        /\ (HadEntry /\ UpstreamFailed) =>
               reply.raised = 0 /\ reply.data = CachedData
        /\ reply.raised # 0 =>
               ~HadEntry /\ UpstreamFailed /\ reply.raised = StatusOfFailure

(***************************************************************************)
(* C23: in _get_weekly_games an upstream answer that yields no games       *)
(* leaves the cache entry of the URL as it was, data and timestamp, and    *)
(* the call returns the list cached for the URL if there is one and an     *)
(* empty list otherwise.                                                   *)
(***************************************************************************)
NoGamesAnswered ==
    WeeklyGamesCalled /\ reply.upstream = "object" /\ reply.body = << >>

C23_EmptyKeepsCache ==
    NoGamesAnswered =>
        /\ reply.kept = reply.had
        /\ reply.raised = 0
        /\ reply.data = IF reply.had # NoEntry THEN reply.had.data ELSE << >>

\* An answer without games for a URL whose entry is older than the TTL.
C23_Witness ==
    /\ NoGamesAnswered
    /\ reply.had # NoEntry
    /\ reply.at - reply.had.ts >= 60
    /\ reply.kept = reply.had
    /\ reply.data = reply.had.data

(***************************************************************************)
(* C24: get_weekly_context answers 502 with detail "Unexpected upstream    *)
(* format" when the upstream payload is not a JSON object, and 502 with    *)
(* detail "Invalid upstream context" when the season year, the season type *)
(* or the week number of the payload cannot be converted to an integer.    *)
(***************************************************************************)
\* int() raises on the value.
Unconvertible(v) == v # Null /\ IntOf(v).raised # ""

C24_AsStated ==
    LET up == context_reply.upstream
    IN  /\ up.kind = "not_object" =>
               /\ context_reply.raised = 502
               /\ context_reply.detail = "Unexpected upstream format"
        /\ (/\ up.kind = "object"
            /\ Unconvertible(up.year) \/ Unconvertible(up.s_type)
                   \/ Unconvertible(up.week)) =>
               /\ context_reply.raised = 502
               /\ context_reply.detail = "Invalid upstream context"

(***************************************************************************)
(* C30: for every standings list that _extract_minimal_standings returns,  *)
(* entries with a null division included, the regular-season picture is    *)
(* computed without raising and holds a status for every team of the list. *)
(***************************************************************************)
\* _get_live_standings has returned the list made of the upstream's groups
\* to a request.
PictureRequested == calls >= 1 /\ served # NoData

\* Every team of the list has a status in the picture.
EveryTeamHasStatus ==
    \A k \in 1..Len(ListOf(served)) :
        \E c \in ConferenceKeys :
            \E j \in 1..Len(picture[c]) :
                /\ picture[c][j].team = ListOf(served)[k].team
                /\ picture[c][j].status # ""

C30_AsStated ==
    PictureRequested => IsPicture(picture) /\ EveryTeamHasStatus

(***************************************************************************)
(* C29: the seeding engine and the bracket tracker leave their input, the  *)
(* standings list, which may be the list in _live_cache_data that other    *)
(* requests are served from, and the bracket, as it was handed to them,    *)
(* and however the requests served at once are interleaved, each gets the  *)
(* result it would get when served alone.                                  *)
(***************************************************************************)
\* The engine or the tracker has been called for the request of thread t.
WasCalled(t) == threads[t].input # NoObject

\* What the object handed to the call of thread t holds now.
InputNow(t) ==
    IF threads[t].job = "standings" THEN Dicts(heap, threads[t].input)
    ELSE heap[threads[t].input]

\* The result of the request of thread t served alone.
ResultAlone(t) ==
    IF threads[t].job = "bracket" THEN PostseasonPicture(threads[t].handed)
    ELSE IF StartsWithRaises(threads[t].handed) THEN AttributeError
    ELSE RegularPicture(threads[t].handed)

C29_NoInterference ==
    \A t \in Threads :
        WasCalled(t) =>
            /\ InputNow(t) = threads[t].handed
            /\ threads[t].pc = "done" => threads[t].result = ResultAlone(t)

\* Two requests for the regular-season picture whose engine calls ran at
\* once on the same list object, a conference of which gets seeds.
C29_Witness ==
    \E t, u \in Threads :
        /\ t # u
        /\ threads[t].pc = "done" /\ threads[u].pc = "done"
        /\ threads[t].job = "standings" /\ threads[u].job = "standings"
        /\ threads[t].input = threads[u].input /\ WasCalled(t)
        /\ threads[t].overlapped /\ threads[u].overlapped
        /\ IsPicture(threads[t].result)
        /\ \E k \in 1..Len(threads[t].result.afc_teams) :
               threads[t].result.afc_teams[k].seed = 7
        /\ InputNow(t) = threads[t].handed

====
